---- MODULE Spec2Model ----
(***************************************************************************)
(* koushou package manager: the dependency resolver (src/src/depres.rs),   *)
(* the install engine (src/src/install.rs), the remove engine              *)
(* (src/src/removal.rs) and the installed-state database                   *)
(* (src/src/pkgdb.rs).                                                     *)
(***************************************************************************)
EXTENDS Integers, Sequences, FiniteSets, TLC

VARIABLES
    pkgRows,    \* rows of table `packages` of repos/core.db, in row order
    depRows,    \* rows of table `dependencies` of repos/core.db, in row order
    mainRows,   \* rows of table `packages` of repos/main.db, in row order
    universe,   \* PackageUniverse.packages once loaded, NoUniverse before
    outcome,    \* what the last PackageUniverse::resolve call returned
    rerun,      \* what a second call on the same universe and inputs returned
    fs,         \* the tree under the target root: path -> directory or file
    dirOrder,   \* the order in which the file system lists directory entries
    pre,        \* the tree under the root before the last command
    last,       \* the last command run against the root and its result
    prev,       \* the command run before it
    nops,       \* number of commands run so far
    run,        \* the install-by-name or sync command in progress or last
                \* finished
    input,      \* the document or source tree handed to a parser or builder
    parsed      \* what the parser or builder returned for it

rvars == <<pkgRows, depRows, mainRows, universe, outcome, rerun>>
fvars == <<fs, dirOrder, pre, last, prev, nops>>
pvars == <<input, parsed>>
vars == <<rvars, fvars, run, pvars>>

(***************************************************************************)
(* Bounds of the model.                                                    *)
(***************************************************************************)
MaxDeps == 4        \* dependency rows in the graph-shaped databases
MaxPkgRows == 2     \* package rows in the version-shaped databases
MaxPredDeps == 1    \* dependency rows in the version-shaped databases
MaxMainRows == 1    \* package rows in repos/main.db
MaxRoots == 2       \* length of the root list handed to resolve
MaxOps == 3         \* commands run against one root
MaxPayloadFiles == 2 \* regular files in one package payload
MaxRuns == 2        \* install-by-name commands run against one root
MaxSyncs == 2       \* sync commands run against one root
MaxMirrors == 3     \* nodes in one mirror list
MaxSourceEntries == 3 \* entries listed under files/ of one source tree
MaxChildren == 3    \* child nodes of the package node of one manifest

Names == {"a", "b", "c"}
VNames == {"a", "b"}
Archs == {"x86_64", "aarch64"}
Flavours == {"glibc", "musl"}
SysArch == "x86_64"
SysFlavour == "glibc"

(***************************************************************************)
(* Strings that are compared or sliced are sequences of one-character      *)
(* strings; Rust compares them byte-wise.                                  *)
(***************************************************************************)
CharCode(c) ==
    CASE c = "0" -> 48 [] c = "1" -> 49 [] c = "2" -> 50
      [] c = "<" -> 60 [] c = "=" -> 61 [] c = ">" -> 62

RECURSIVE StrLess(_, _)
StrLess(s, t) ==
    IF t = <<>> THEN FALSE
    ELSE IF s = <<>> THEN TRUE
    ELSE IF CharCode(Head(s)) < CharCode(Head(t)) THEN TRUE
    ELSE IF CharCode(Head(s)) > CharCode(Head(t)) THEN FALSE
    ELSE StrLess(Tail(s), Tail(t))

StrLeq(s, t) == s = t \/ StrLess(s, t)

StartsWith(s, p) == Len(s) >= Len(p) /\ SubSeq(s, 1, Len(p)) = p

DropChars(s, n) == SubSeq(s, n + 1, Len(s))

Versions == {<<"1">>, <<"1", "0">>, <<"2">>}

(***************************************************************************)
(* VersionPredicate and VersionPredicate::matches.                         *)
(***************************************************************************)
PredAny == [kind |-> "Any", v |-> <<>>]
PredExact(v) == [kind |-> "Exact", v |-> v]
PredGreaterOrEqual(v) == [kind |-> "GreaterOrEqual", v |-> v]
PredLessThan(v) == [kind |-> "LessThan", v |-> v]

matches(pred, candidate) ==
    CASE pred.kind = "Any" -> TRUE
      [] pred.kind = "Exact" -> candidate = pred.v
      [] pred.kind = "GreaterOrEqual" -> StrLeq(pred.v, candidate)
      [] pred.kind = "LessThan" -> StrLess(candidate, pred.v)

(***************************************************************************)
(* The nullable dep_predicate column: SQL NULL or a text.                  *)
(***************************************************************************)
SqlNull == [some |-> FALSE, text |-> <<>>]
SqlText(t) == [some |-> TRUE, text |-> t]

\* the match of load_from_cache that turns the column into a predicate
ParsePredicate(col) ==
    IF ~col.some THEN PredAny
    ELSE IF StartsWith(col.text, <<">", "=">>)
        THEN PredGreaterOrEqual(DropChars(col.text, 2))
    ELSE IF StartsWith(col.text, <<"<">>)
        THEN PredLessThan(DropChars(col.text, 1))
    ELSE IF StartsWith(col.text, <<"=">>)
        THEN PredExact(DropChars(col.text, 1))
    ELSE PredExact(col.text)

PredColumns ==
    {SqlNull, SqlText(<<">", "=", "2">>), SqlText(<<"<", "2">>),
     SqlText(<<"=", "1">>), SqlText(<<"1", "0">>), SqlText(<<"<", "=", "2">>)}

(***************************************************************************)
(* Artifacts and their digests.  The bytes of a .kpkg are named by a       *)
(* tuple; Sha256 gives distinct digests to distinct bytes.                 *)
(***************************************************************************)
Sha256(bytes) == <<"sha256", bytes>>

\* the file name "<name>-<version>-<arch>.kpkg", one string per triple
Filename(name, version, arch) == ToString(<<name, version, arch, "kpkg">>)

GoodBytes(name, version, arch, flavour) ==
    <<"kpkg", name, version, arch, flavour>>

PkgRow(name, version, arch, flavour) ==
    [name |-> name, version |-> version, arch |-> arch, flavour |-> flavour,
     filename |-> Filename(name, version, arch),
     sha256 |-> Sha256(GoodBytes(name, version, arch, flavour))]

DepRow(pkg, dep, col) ==
    [package_name |-> pkg, dep_name |-> dep, dep_predicate |-> col]

(***************************************************************************)
(* PackageUniverse::load_from_cache.                                       *)
(***************************************************************************)
Url(flavour, repo, arch, filename) == <<flavour, repo, arch, filename>>

\* RowKey leaving the flavour out of the key
RowKeyNoFlavour(row) == <<row.name, row.arch, SysFlavour>>

RowKey(row) == <<row.name, row.arch, row.flavour>>

\* dep_map.get(name): the dependency rows of a package name, in row order
RECURSIVE DepsOf(_, _)
DepsOf(rows, name) ==
    IF rows = <<>> THEN <<>>
    ELSE LET r == Head(rows)
             rest == DepsOf(Tail(rows), name)
         IN IF r.package_name = name
            THEN <<[name |-> r.dep_name,
                    predicate |-> ParsePredicate(r.dep_predicate)]>> \o rest
            ELSE rest

Metadata(row, deps) ==
    [id |-> [name |-> row.name, version |-> row.version,
             arch |-> row.arch, flavour |-> row.flavour],
     url |-> Url(row.flavour, "core", row.arch, row.filename),
     sha256 |-> row.sha256,
     depends |-> DepsOf(deps, row.name)]

\* packages.entry(key).or_default().push(...) over the rows in order
RECURSIVE EntriesOf(_, _, _)
EntriesOf(rows, deps, key) ==
    IF rows = <<>> THEN <<>>
    ELSE LET rest == EntriesOf(Tail(rows), deps, key)
         IN IF RowKey(Head(rows)) = key
            THEN <<Metadata(Head(rows), deps)>> \o rest
            ELSE rest

load_from_cache(rows, deps) ==
    [key \in {RowKey(rows[i]) : i \in 1..Len(rows)} |->
        EntriesOf(rows, deps, key)]

(***************************************************************************)
(* PackageUniverse::resolve and resolve_package.                           *)
(***************************************************************************)
NoError == [kind |-> "none", detail |-> <<>>]
PackageNotFound(name) == [kind |-> "PackageNotFound", detail |-> <<name>>]
CircularDependency(name) ==
    [kind |-> "CircularDependency", detail |-> <<name>>]
FlavourMismatch(required, system) ==
    [kind |-> "FlavourMismatch", detail |-> <<required, system>>]

\* Iterator::max_by_key(|m| &m.id.version): the last of the maximal elements
RECURSIVE MaxByVersion(_)
MaxByVersion(cands) ==
    IF Len(cands) = 1 THEN cands[1]
    ELSE LET m == MaxByVersion(SubSeq(cands, 1, Len(cands) - 1))
             l == cands[Len(cands)]
         IN IF StrLess(l.id.version, m.id.version) THEN m ELSE l

Insert(map, k, v) ==
    [x \in DOMAIN map \cup {k} |-> IF x = k THEN v ELSE map[x]]

EmptyMap == [x \in {} |-> x]

RECURSIVE resolve_package(_, _, _, _, _)
RECURSIVE ResolveDeps(_, _, _, _, _)

\* ResolveDeps leaving the loop after the first dependency
ResolveDepsFirstOnly(U, deps, flavour, arch, st) ==
    IF deps = <<>> \/ st.err # NoError THEN st
    ELSE LET dep == Head(deps)
         IN IF dep.name \notin DOMAIN st.selected
            THEN resolve_package(U, dep.name, flavour, arch, st)
            ELSE st

\* the `for dep in &best.depends` loop of resolve_package
ResolveDeps(U, deps, flavour, arch, st) ==
    IF deps = <<>> \/ st.err # NoError THEN st
    ELSE LET dep == Head(deps)
             st1 == IF dep.name \notin DOMAIN st.selected
                    THEN resolve_package(U, dep.name, flavour, arch, st)
                    ELSE st
         IN ResolveDeps(U, Tail(deps), flavour, arch, st1)

\* resolve_package returning Ok(()) for a name that has no entry
resolve_package_skip_missing(U, name, flavour, arch, st) ==
    IF name \in st.visited
    THEN [st EXCEPT !.err = CircularDependency(name)]
    ELSE LET key == <<name, arch, flavour>>
             vis == st.visited \cup {name}
         IN IF key \notin DOMAIN U
            THEN st
            ELSE LET best == MaxByVersion(U[key])
                 IN IF best.id.flavour # flavour
                    THEN [st EXCEPT !.visited = vis,
                             !.err = FlavourMismatch(best.id.flavour, flavour)]
                    ELSE LET st2 == [selected |-> Insert(st.selected, name, best),
                                     visited |-> vis,
                                     err |-> NoError]
                             st3 == ResolveDeps(U, best.depends, flavour, arch, st2)
                         IN IF st3.err # NoError THEN st3
                            ELSE [st3 EXCEPT !.visited = @ \ {name}]

\* resolve_package leaving the name in `visited` when its subtree is done
resolve_package_keep_visited(U, name, flavour, arch, st) ==
    IF name \in st.visited
    THEN [st EXCEPT !.err = CircularDependency(name)]
    ELSE LET key == <<name, arch, flavour>>
             vis == st.visited \cup {name}
         IN IF key \notin DOMAIN U
            THEN [st EXCEPT !.visited = vis, !.err = PackageNotFound(name)]
            ELSE LET best == MaxByVersion(U[key])
                 IN IF best.id.flavour # flavour
                    THEN [st EXCEPT !.visited = vis,
                             !.err = FlavourMismatch(best.id.flavour, flavour)]
                    ELSE ResolveDeps(U, best.depends, flavour, arch,
                                     [selected |-> Insert(st.selected, name, best),
                                      visited |-> vis,
                                      err |-> NoError])

resolve_package(U, name, flavour, arch, st) ==
    IF name \in st.visited
    THEN [st EXCEPT !.err = CircularDependency(name)]
    ELSE LET key == <<name, arch, flavour>>
             vis == st.visited \cup {name}
         IN IF key \notin DOMAIN U
            THEN [st EXCEPT !.visited = vis, !.err = PackageNotFound(name)]
            ELSE LET best == MaxByVersion(U[key])
                 IN IF best.id.flavour # flavour
                    THEN [st EXCEPT !.visited = vis,
                             !.err = FlavourMismatch(best.id.flavour, flavour)]
                    ELSE LET st2 == [selected |-> Insert(st.selected, name, best),
                                     visited |-> vis,
                                     err |-> NoError]
                             st3 == ResolveDeps(U, best.depends, flavour, arch, st2)
                         IN IF st3.err # NoError THEN st3
                            ELSE [st3 EXCEPT !.visited = @ \ {name}]

\* the `for pkg_name in root_packages` loop of resolve
RECURSIVE ResolveRoots(_, _, _, _, _)
ResolveRoots(U, roots, flavour, arch, st) ==
    IF roots = <<>> \/ st.err # NoError THEN st
    ELSE ResolveRoots(U, Tail(roots), flavour, arch,
                      resolve_package(U, Head(roots), flavour, arch, st))

ResolveState(U, roots, flavour, arch) ==
    ResolveRoots(U, roots, flavour, arch,
                 [selected |-> EmptyMap, visited |-> {}, err |-> NoError])

\* the orders in which HashMap::values can visit the entries
Orders(S) ==
    {f \in [1..Cardinality(S) -> S] :
        \A i, j \in 1..Cardinality(S) : i # j => f[i] # f[j]}

\* Solution keeping only the entry that the map happens to visit first
SolutionFirstOnly(selected, ord) ==
    [packages |-> <<selected[ord[1]].id>>,
     download_urls |-> [n \in DOMAIN selected |-> selected[n].url],
     sha256_sums |-> [n \in DOMAIN selected |-> selected[n].sha256]]

\* the ResolutionSolution built from `selected`, visited in order `ord`
Solution(selected, ord) ==
    [packages |-> [i \in 1..Len(ord) |-> selected[ord[i]].id],
     download_urls |-> [n \in DOMAIN selected |-> selected[n].url],
     sha256_sums |-> [n \in DOMAIN selected |-> selected[n].sha256]]

NoSolution == [packages |-> <<>>, download_urls |-> EmptyMap,
               sha256_sums |-> EmptyMap]

(***************************************************************************)
(* The resolver's specification: a cached database is drawn, loaded and    *)
(* resolved for a root list.                                               *)
(***************************************************************************)
NoUniverse == [loaded |-> FALSE, packages |-> EmptyMap]

NotRun == [status |-> "none", roots |-> <<>>, selected |-> EmptyMap,
           solution |-> NoSolution, err |-> NoError]

SeqsUpTo(S, n) == UNION {[1..k -> S] : k \in 0..n}

RootLists == SeqsUpTo(Names, MaxRoots) \ {<<>>}

\* ascending enumeration of a set of integers
RECURSIVE SortedSeq(_)
SortedSeq(S) ==
    IF S = {} THEN <<>>
    ELSE LET m == CHOOSE x \in S : \A y \in S : x <= y
         IN <<m>> \o SortedSeq(S \ {m})

\* the pairs (package, dependency) of the graph-shaped databases, numbered
EdgeOf(i) ==
    LET ns == <<"a", "b", "c">>
    IN <<ns[((i - 1) \div 3) + 1], ns[((i - 1) % 3) + 1]>>

EdgeSets == {E \in SUBSET (1..9) : Cardinality(E) <= MaxDeps}

GraphDepRows(E) ==
    LET s == SortedSeq(E)
    IN [i \in 1..Len(s) |-> DepRow(EdgeOf(s[i])[1], EdgeOf(s[i])[2], SqlNull)]

GraphPkgRows(P) ==
    LET s == SortedSeq({i \in 1..3 : <<"a", "b", "c">>[i] \in P})
    IN [i \in 1..Len(s) |->
           PkgRow(<<"a", "b", "c">>[s[i]], <<"1">>, SysArch, SysFlavour)]

Platforms == {<<SysArch, SysFlavour>>, <<SysArch, "musl">>,
              <<"aarch64", SysFlavour>>}

VersionRowChoices ==
    {PkgRow(n, v, p[1], p[2]) : n \in VNames, v \in Versions, p \in Platforms}

VersionDepChoices ==
    {DepRow(e[1], e[2], c) :
        e \in {x \in VNames \X VNames : x[1] # x[2]}, c \in PredColumns}

\* the four packages of the diamond, and the pairs (package, dependency)
\* among them, numbered
DiamondNames == <<"a", "b", "c", "d">>
DiamondNameSet == {DiamondNames[i] : i \in 1..4}

DiamondEdgeOf(i) ==
    <<DiamondNames[((i - 1) \div 4) + 1], DiamondNames[((i - 1) % 4) + 1]>>

\* the edges that point from an earlier to a later package: every set of
\* them is acyclic
ForwardEdges == {i \in 1..16 : (i - 1) \div 4 < (i - 1) % 4}

DagEdgeSets == {E \in SUBSET ForwardEdges : Cardinality(E) <= MaxDeps}

DiamondRootLists == SeqsUpTo(DiamondNameSet, MaxRoots) \ {<<>>}

\* databases whose dependency graph over a, b, c, d is acyclic
InitDag ==
    /\ \E P \in SUBSET (1..4) :
          LET s == SortedSeq(P)
          IN pkgRows = [i \in 1..Len(s) |->
                PkgRow(DiamondNames[s[i]], <<"1">>, SysArch, SysFlavour)]
    /\ \E E \in DagEdgeSets :
          LET s == SortedSeq(E)
          IN depRows = [i \in 1..Len(s) |->
                DepRow(DiamondEdgeOf(s[i])[1], DiamondEdgeOf(s[i])[2],
                       SqlNull)]
    /\ mainRows = <<>>

\* databases that vary the dependency graph
InitGraph ==
    /\ \E P \in SUBSET Names : pkgRows = GraphPkgRows(P)
    /\ \E E \in EdgeSets : depRows = GraphDepRows(E)
    /\ mainRows = <<>>

\* databases that vary versions, platforms and predicates
InitVersions ==
    /\ pkgRows \in SeqsUpTo(VersionRowChoices, MaxPkgRows)
    /\ depRows \in SeqsUpTo(VersionDepChoices, MaxPredDeps)
    /\ mainRows = <<>>

SysRowChoices ==
    {PkgRow(n, v, SysArch, SysFlavour) : n \in VNames, v \in Versions}

\* caches that hold both repos/core.db and repos/main.db
InitRepos ==
    /\ pkgRows \in SeqsUpTo(SysRowChoices, MaxPkgRows)
    /\ depRows = <<>>
    /\ mainRows \in SeqsUpTo(SysRowChoices, MaxMainRows)


(***************************************************************************)
(* The file system under the target root.  A path is the sequence of its   *)
(* components; the tree maps every existing path to its node.  The root    *)
(* itself is an existing directory.                                        *)
(***************************************************************************)
NoManifestFields ==
    [name |-> "", version |-> <<>>, arch |-> "", flavour |-> "",
     depends |-> <<>>]

NoKpkg == [outer |-> "none", kdl |-> "none", manifest |-> NoManifestFields,
           tar |-> "none", payload |-> <<>>]

\* the content of a file: plain bytes, a JSON document, the bytes of a
\* package archive, or an SQLite database with its two tables
NoData == [tag |-> "none", text |-> <<>>, doc |-> {}, kpkg |-> NoKpkg,
           pkgs |-> <<>>, deps |-> <<>>]
Raw(text) == [NoData EXCEPT !.tag = "raw", !.text = text]
Json(doc) == [NoData EXCEPT !.tag = "json", !.doc = doc]
KpkgBytes(k) == [NoData EXCEPT !.tag = "kpkg", !.kpkg = k]
Sqlite(pkgs, deps) ==
    [NoData EXCEPT !.tag = "sqlite", !.pkgs = pkgs, !.deps = deps]

DirNode == [kind |-> "dir", data |-> NoData]
FileNode(data) == [kind |-> "file", data |-> data]

EmptyFs == [q \in {} |-> DirNode]

IsPrefix(p, q) == Len(p) <= Len(q) /\ SubSeq(q, 1, Len(p)) = p
Parents(p) == {SubSeq(p, 1, k) : k \in 1..(Len(p) - 1)}

Exists(t, p) == p \in DOMAIN t
IsDir(t, p) == p \in DOMAIN t /\ t[p].kind = "dir"
IsFile(t, p) == p \in DOMAIN t /\ t[p].kind = "file"
FilesIn(t) == {p \in DOMAIN t : t[p].kind = "file"}
DirsIn(t) == {p \in DOMAIN t : t[p].kind = "dir"}

\* root.is_dir(): the root is a directory unless the tree holds a node that
\* is not a directory at the empty path
RootIsDir(t) == ~Exists(t, <<>>) \/ IsDir(t, <<>>)

Restrict(t, S) == [q \in S |-> t[q]]

\* std::fs::remove_dir_all
RemoveDirAll(t, p) == Restrict(t, {q \in DOMAIN t : ~IsPrefix(p, q)})

\* std::fs::remove_file on an existing non-directory
RemoveFile(t, p) == Restrict(t, DOMAIN t \ {p})

\* std::fs::create_dir_all: fails when a component is not a directory
CreateDirAll(t, p) ==
    LET comps == Parents(p) \cup {p}
    IN IF \E c \in comps : IsFile(t, c)
       THEN [ok |-> FALSE, fs |-> t]
       ELSE [ok |-> TRUE,
             fs |-> [q \in DOMAIN t \cup comps |->
                        IF q \in DOMAIN t THEN t[q] ELSE DirNode]]

\* std::fs::write: creates or truncates the file
WriteFile(t, p, data) ==
    IF IsDir(t, p) \/ \E c \in Parents(p) : ~IsDir(t, c)
    THEN [ok |-> FALSE, fs |-> t]
    ELSE [ok |-> TRUE,
          fs |-> [q \in DOMAIN t \cup {p} |->
                     IF q = p THEN FileNode(data) ELSE t[q]]]

\* the tree made of the given files and of the directories leading to them
Tree(files) ==
    LET dirs == UNION {Parents(p) : p \in DOMAIN files}
    IN [q \in DOMAIN files \cup dirs |->
           IF q \in DOMAIN files THEN FileNode(files[q]) ELSE DirNode]

UsrBinFoo == <<"usr", "bin", "foo">>
UsrBinBar == <<"usr", "bin", "bar">>
Opt == <<"opt">>
OptX == <<"opt", "x">>
VarX == <<"var", "x">>
DbDir == <<"var", "lib", "koushou">>
DbPath == <<"var", "lib", "koushou", "db.json">>

\* a fixed enumeration of the file paths, used to order directory listings
VarLib == <<"var", "lib">>
Etc == <<"etc">>
PathOrder == <<Etc, Opt, OptX, UsrBinBar, UsrBinFoo, VarLib, DbPath, VarX>>
PathRank(p) == CHOOSE i \in 1..Len(PathOrder) : PathOrder[i] = p

RECURSIVE ListPaths(_, _)
ListPaths(S, order) ==
    IF S = {} THEN <<>>
    ELSE LET m == CHOOSE x \in S : \A y \in S :
                     IF order = "fwd" THEN PathRank(x) <= PathRank(y)
                                      ELSE PathRank(x) >= PathRank(y)
         IN <<m>> \o ListPaths(S \ {m}, order)

Reverse(q) == [i \in 1..Len(q) |-> q[Len(q) + 1 - i]]
Range(q) == {q[i] : i \in 1..Len(q)}

(***************************************************************************)
(* The installed-state database (pkgdb.rs).                                *)
(***************************************************************************)
InstalledPackage(m, files) ==
    [name |-> m.name, version |-> m.version, arch |-> m.arch,
     flavour |-> m.flavour, depends |-> m.depends, files |-> files]

\* PackageDatabase::new
NewDb == EmptyMap

\* serde_json::to_string_pretty: the object with one member per package
Serialize(db) == Json({[key |-> n, value |-> db[n]] : n \in DOMAIN db})

\* serde_json::from_str: fails unless the text is a JSON database document
CanParse(data) == data.tag = "json"
Parse(data) ==
    [n \in {e.key : e \in data.doc} |->
        (CHOOSE e \in data.doc : e.key = n).value]

\* PackageDatabase::load_or_new
load_or_new(t, path) ==
    IF Exists(t, path)
    THEN IF IsFile(t, path) /\ CanParse(t[path].data)
         THEN [ok |-> TRUE, db |-> Parse(t[path].data)]
         ELSE [ok |-> FALSE, db |-> NewDb]
    ELSE [ok |-> TRUE, db |-> NewDb]

\* PackageDatabase::save
save(t, path, db) == WriteFile(t, path, Serialize(db))

\* PackageDatabase::add
add(db, pkg) == Insert(db, pkg.name, pkg)

\* PackageDatabase::contains
contains(db, name) == name \in DOMAIN db

\* PackageDatabase::remove, on a name the database contains
remove(db, name) == Restrict(db, DOMAIN db \ {name})

\* the database a command would load from the tree, empty if unreadable
DbOf(t) == load_or_new(t, DbPath).db

(***************************************************************************)
(* Package archives.  The bytes of a .kpkg are named by what they decode   *)
(* to: the outer gzip-tar, its package.kdl, its files.tar.zst.             *)
(***************************************************************************)
Manifest(name, version) ==
    [name |-> name, version |-> version, arch |-> SysArch,
     flavour |-> SysFlavour, depends |-> <<>>]

Kpkg(name, version, files) ==
    [outer |-> "ok", kdl |-> "ok", manifest |-> Manifest(name, version),
     tar |-> "ok", payload |-> Tree(files)]

\* the content a package gives to the file it ships at path p
Content(name, p) == Raw(<<name>> \o p)

PayloadOf(name, paths) == [p \in paths |-> Content(name, p)]

\* no payload path lies under another payload file
Consistent(paths) ==
    \A p, q \in paths : p # q => ~IsPrefix(p, q)

PayloadSets(paths, n) ==
    {P \in SUBSET paths : Cardinality(P) <= n /\ Consistent(P)}

FooPaths == {UsrBinFoo, Opt, OptX, DbPath}
BarPaths == {UsrBinBar, OptX, VarX}

\* a payload that ships a well-formed, empty database document
WithDbDocument(files) ==
    [p \in DOMAIN files |->
        IF p = DbPath THEN Serialize(NewDb) ELSE files[p]]

FooKpkgs ==
    {Kpkg("foo", <<"1">>, WithDbDocument(PayloadOf("foo", P))) :
        P \in PayloadSets(FooPaths, MaxPayloadFiles)}
    \cup {Kpkg("foo", <<"1">>, PayloadOf("foo", {DbPath}))}

BarKpkgs ==
    {Kpkg("bar", <<"1">>, PayloadOf("bar", P)) :
        P \in PayloadSets(BarPaths, MaxPayloadFiles - 1)}

NotGzip == [Kpkg("foo", <<"1">>, EmptyMap) EXCEPT !.outer = "corrupt"]
NoManifest == [Kpkg("foo", <<"1">>, EmptyMap) EXCEPT !.kdl = "missing"]
BadManifest == [Kpkg("foo", <<"1">>, EmptyMap) EXCEPT !.kdl = "invalid"]
NoFilesTar ==
    [Kpkg("foo", <<"1">>, PayloadOf("foo", {UsrBinFoo})) EXCEPT
        !.tar = "missing"]

BrokenKpkgs == {NotGzip, NoManifest, BadManifest, NoFilesTar}

Kpkgs == FooKpkgs \cup BarKpkgs \cup BrokenKpkgs

PkgNames == {"foo", "bar"}

(***************************************************************************)
(* install::install_local_package, on the bytes found at kpkg_path.        *)
(***************************************************************************)
Ok(t) == [ok |-> TRUE, err |-> "none", fs |-> t]
Fail(e, t) == [ok |-> FALSE, err |-> e, fs |-> t]

TopLevel(t) == {<<p[1]>> : p \in DOMAIN t}

\* ApplyStaging renaming only the entries whose destination did not exist
ApplyStagingSkipExisting(t, staging) ==
    LET tops == TopLevel(staging)
        kept == {q \in DOMAIN t : \A top \in tops : ~IsPrefix(top, q)}
        moved == {q \in DOMAIN staging : ~Exists(t, <<q[1]>>)}
    IN [q \in kept \cup moved |->
           IF q \in moved THEN staging[q] ELSE t[q]]

\* the loop over the top-level entries of staging: an existing destination
\* is deleted, then the staging entry is renamed onto it
ApplyStaging(t, staging) ==
    LET tops == TopLevel(staging)
        kept == {q \in DOMAIN t : \A top \in tops : ~IsPrefix(top, q)}
    IN [q \in kept \cup DOMAIN staging |->
           IF q \in DOMAIN staging THEN staging[q] ELSE t[q]]

\* the tail of install_local_package: create the directory of the database,
\* load it, upsert the record, save it
RecordInstall(t, pkg) ==
    LET mk == CreateDirAll(t, DbDir)
    IN IF ~mk.ok THEN Fail("Io", t)
       ELSE LET ld == load_or_new(mk.fs, DbPath)
            IN IF ~ld.ok THEN Fail("PkgDb", mk.fs)
               ELSE LET sv == save(mk.fs, DbPath, add(ld.db, pkg))
                    IN IF ~sv.ok THEN Fail("PkgDb", mk.fs) ELSE Ok(sv.fs)

\* install_local_package looking for files.tar.zst only after it has moved
\* the staged entries into the root
install_local_package_late_check(k, t, order) ==
    IF ~RootIsDir(t) THEN Fail("InvalidRoot", t)
    ELSE IF k.outer # "ok" THEN Fail("Io", t)
    ELSE IF k.kdl # "ok" THEN Fail("PackageParse", t)
    ELSE IF k.tar = "missing"
    THEN Fail("MissingFilesTar", ApplyStaging(t, k.payload))
    ELSE IF k.tar # "ok" THEN Fail("Io", t)
    ELSE LET staging == k.payload
             files == ListPaths(FilesIn(staging), order)
         IN RecordInstall(ApplyStaging(t, staging),
                          InstalledPackage(k.manifest, files))

install_local_package(k, t, order) ==
    IF ~RootIsDir(t) THEN Fail("InvalidRoot", t)
    ELSE IF k.outer # "ok" THEN Fail("Io", t)
    ELSE IF k.kdl # "ok" THEN Fail("PackageParse", t)
    ELSE IF k.tar = "missing" THEN Fail("MissingFilesTar", t)
    ELSE IF k.tar # "ok" THEN Fail("Io", t)
    ELSE LET staging == k.payload
             files == ListPaths(FilesIn(staging), order)
         IN RecordInstall(ApplyStaging(t, staging),
                          InstalledPackage(k.manifest, files))

(***************************************************************************)
(* removal::remove_package.                                                *)
(***************************************************************************)
\* Unlink stopping after the first recorded file
UnlinkFirstOnly(t, files) ==
    IF files = <<>> THEN Ok(t)
    ELSE LET p == Head(files)
         IN IF ~Exists(t, p) THEN Ok(t)
            ELSE IF IsDir(t, p) THEN Fail("Io", t)
            ELSE Ok(RemoveFile(t, p))

\* Unlink without the exists() test: remove_file fails on an absent path
RECURSIVE UnlinkStrict(_, _)
UnlinkStrict(t, files) ==
    IF files = <<>> THEN Ok(t)
    ELSE LET p == Head(files)
         IN IF ~Exists(t, p) \/ IsDir(t, p) THEN Fail("Io", t)
            ELSE UnlinkStrict(RemoveFile(t, p), Tail(files))

\* the loop over the recorded files: unlink each one that exists
RECURSIVE Unlink(_, _)
Unlink(t, files) ==
    IF files = <<>> THEN Ok(t)
    ELSE LET p == Head(files)
         IN IF ~Exists(t, p) THEN Unlink(t, Tail(files))
            ELSE IF IsDir(t, p) THEN Fail("Io", t)
            ELSE Unlink(RemoveFile(t, p), Tail(files))

\* remove_package creating an empty database when none exists and treating
\* a name it does not hold as already removed
remove_package_lenient(t, name) ==
    LET ld == load_or_new(t, DbPath)
    IN IF ~ld.ok THEN Fail("PkgDb", t)
       ELSE LET files == IF contains(ld.db, name)
                         THEN Reverse(ld.db[name].files) ELSE <<>>
                un == Unlink(t, files)
            IN IF ~un.ok THEN un
               ELSE LET sv == save(un.fs, DbPath,
                                   Restrict(ld.db, DOMAIN ld.db \ {name}))
                    IN IF ~sv.ok THEN Fail("PkgDb", un.fs) ELSE Ok(sv.fs)

remove_package(t, name) ==
    IF ~Exists(t, DbPath) THEN Fail("NotInstalled", t)
    ELSE LET ld == load_or_new(t, DbPath)
         IN IF ~ld.ok THEN Fail("PkgDb", t)
            ELSE IF ~contains(ld.db, name) THEN Fail("NotInstalled", t)
            ELSE LET un == Unlink(t, Reverse(ld.db[name].files))
                 IN IF ~un.ok THEN un
                    ELSE LET sv == save(un.fs, DbPath, remove(ld.db, name))
                         IN IF ~sv.ok THEN Fail("PkgDb", un.fs)
                            ELSE Ok(sv.fs)

(***************************************************************************)
(* install::install_package_by_name: resolve, then for each resolved       *)
(* package fetch it unless cached, verify what was fetched, install it.    *)
(***************************************************************************)
FlavourPath == <<"etc", "koushou", "flavour">>
CacheDir == <<"var", "cache", "koushou", "pkgs">>
CoreDbPath == <<"var", "cache", "koushou", "repos", "core.db">>
CachePath(filename) == CacheDir \o <<filename>>

Sha256Mismatch(filename, expected, actual) ==
    [kind |-> "Sha256Mismatch", detail |-> <<filename, expected, actual>>]
OtherError(kind) == [kind |-> kind, detail |-> <<>>]

\* resolve::compute_sha256 of the file at a path
compute_sha256(t, path) == Sha256(t[path].data)

\* the row mkdb writes for a package archive
RepoRow(k) ==
    [name |-> k.manifest.name, version |-> k.manifest.version,
     arch |-> k.manifest.arch, flavour |-> k.manifest.flavour,
     filename |-> Filename(k.manifest.name, k.manifest.version,
                           k.manifest.arch),
     sha256 |-> Sha256(KpkgBytes(k))]

ResolvedPackage(meta) ==
    [name |-> meta.id.name, version |-> meta.id.version,
     arch |-> meta.id.arch, filename |-> meta.url[4], url |-> meta.url,
     sha256 |-> meta.sha256,
     depends |-> [i \in 1..Len(meta.depends) |-> meta.depends[i].name]]

\* the selected packages a selected package depends on, itself excepted
SelectedDepsOf(selected, n) ==
    (Range([i \in 1..Len(selected[n].depends) |->
               selected[n].depends[i].name]) \cap DOMAIN selected) \ {n}

\* the orders that put dependencies before dependents; when the selected
\* edges form a cycle no such order exists and the order is unspecified
TopoOrders(selected) ==
    LET all == Orders(DOMAIN selected)
        valid == {o \in all :
                    \A i, j \in 1..Len(o) :
                        o[j] \in SelectedDepsOf(selected, o[i]) => j < i}
    IN IF valid # {} THEN valid ELSE all

\* resolve::resolve_transaction: load the universe cached under the root,
\* resolve the names, order the result dependencies first
resolve_transaction(t, names, flavour, arch) ==
    IF ~IsFile(t, CoreDbPath) \/ t[CoreDbPath].data.tag # "sqlite"
    THEN [ok |-> FALSE, err |-> OtherError("Sqlite"), selected |-> EmptyMap]
    ELSE LET db == t[CoreDbPath].data
             st == ResolveState(load_from_cache(db.pkgs, db.deps),
                                names, flavour, arch)
         IN [ok |-> st.err = NoError, err |-> st.err,
             selected |-> st.selected]

\* the part of install_package_by_name before the loop
begin_install(t, name) ==
    IF ~Exists(t, FlavourPath)
    THEN [ok |-> FALSE, err |-> OtherError("Resolve"), fs |-> t,
          selected |-> EmptyMap]
    ELSE IF ~IsFile(t, FlavourPath)
    THEN [ok |-> FALSE, err |-> OtherError("Io"), fs |-> t,
          selected |-> EmptyMap]
    ELSE LET mk == CreateDirAll(t, CacheDir)
         IN IF ~mk.ok
            THEN [ok |-> FALSE, err |-> OtherError("Io"), fs |-> t,
                  selected |-> EmptyMap]
            ELSE LET r == resolve_transaction(mk.fs, <<name>>,
                              t[FlavourPath].data.text[1], SysArch)
                 IN [ok |-> r.ok, err |-> r.err, fs |-> mk.fs,
                     selected |-> r.selected]

\* what the mirror may answer to the GET of a package: the advertised
\* bytes, another well-formed archive, an error page, no connection, or a
\* body cut short
Evil(name) == Kpkg(name, <<"1">>, PayloadOf("evil", {UsrBinFoo}))

Responses(pkg) ==
    {[kind |-> "body", data |-> d] :
        d \in {pkg.sha256[2], KpkgBytes(Evil(pkg.name)), Raw(<<"404">>)}}
    \cup {[kind |-> "refused", data |-> NoData],
          [kind |-> "interrupted", data |-> Raw(<<"partial">>)]}

\* resolve::download_package: stream the response body to the path
download_package(t, path, resp) ==
    IF resp.kind = "refused" THEN [ok |-> FALSE, err |-> "Http", fs |-> t]
    ELSE LET w == WriteFile(t, path, resp.data)
         IN IF ~w.ok THEN [ok |-> FALSE, err |-> "Io", fs |-> t]
            ELSE IF resp.kind = "interrupted"
            THEN [ok |-> FALSE, err |-> "Http", fs |-> w.fs]
            ELSE [ok |-> TRUE, err |-> "none", fs |-> w.fs]

FetchEvent(pkg, actual) ==
    [kind |-> "fetch", name |-> pkg.name, filename |-> pkg.filename,
     expected |-> pkg.sha256, actual |-> actual, ok |-> actual = pkg.sha256]

InstallEvent(pkg, actual, ok, files) ==
    [kind |-> "install", name |-> pkg.name, filename |-> pkg.filename,
     expected |-> pkg.sha256, actual |-> actual, ok |-> ok, files |-> files]

\* install_local_package(&kpkg_path, root): open the file, then install
install_from_path(t, path, order) ==
    IF ~IsFile(t, path) \/ t[path].data.tag # "kpkg" THEN Fail("Io", t)
    ELSE install_local_package(t[path].data.kpkg, t, order)

\* the hand-over to the install engine at the end of one loop iteration
HandOver(t, pkg, order, events) ==
    LET path == CachePath(pkg.filename)
        r == install_from_path(t, path, order)
    IN [ok |-> r.ok, err |-> OtherError(r.err), fs |-> r.fs,
        events |-> events \o
            <<InstallEvent(pkg,
                           IF IsFile(t, path) THEN compute_sha256(t, path)
                           ELSE Sha256(NoData),
                           r.ok,
                           IF IsFile(t, path) /\ t[path].data.tag = "kpkg"
                           THEN FilesIn(t[path].data.kpkg.payload)
                           ELSE {})>>]

\* one iteration of the loop over the resolved packages, never verifying
\* what was fetched
process_package_unverified(t, pkg, resp, order) ==
    LET path == CachePath(pkg.filename)
    IN IF ~Exists(t, path)
       THEN LET dl == download_package(t, path, resp)
            IN IF ~dl.ok
               THEN [ok |-> FALSE, err |-> OtherError(dl.err), fs |-> dl.fs,
                     events |-> <<>>]
               ELSE HandOver(dl.fs, pkg, order,
                        <<FetchEvent(pkg, compute_sha256(dl.fs, path))>>)
       ELSE HandOver(t, pkg, order, <<>>)

\* one iteration of the loop over the resolved packages
process_package(t, pkg, resp, order) ==
    LET path == CachePath(pkg.filename)
    IN IF ~Exists(t, path)
       THEN LET dl == download_package(t, path, resp)
            IN IF ~dl.ok
               THEN [ok |-> FALSE, err |-> OtherError(dl.err), fs |-> dl.fs,
                     events |-> <<>>]
               ELSE LET actual_sha == compute_sha256(dl.fs, path)
                    IN IF actual_sha # pkg.sha256
                       THEN [ok |-> FALSE,
                             err |-> Sha256Mismatch(pkg.filename, pkg.sha256,
                                                    actual_sha),
                             fs |-> dl.fs,
                             events |-> <<FetchEvent(pkg, actual_sha)>>]
                       ELSE HandOver(dl.fs, pkg, order,
                                     <<FetchEvent(pkg, actual_sha)>>)
       ELSE HandOver(t, pkg, order, <<>>)

NoDoc == [syntax |-> "none", nodes |-> <<>>]
NotParsed == [status |-> "none"]

NoCommand == [op |-> "none", name |-> "", kpkg |-> NoKpkg, ok |-> FALSE,
              err |-> "none"]

Idle == [status |-> "idle", name |-> "", queue |-> <<>>,
         selected |-> EmptyMap, events |-> <<>>, err |-> NoError]

FooGood == Kpkg("foo", <<"1">>, PayloadOf("foo", {UsrBinFoo}))

\* a package whose payload ships a file in the place of the installed DB
FooOverDb == Kpkg("foo", <<"1">>, PayloadOf("foo", {DbPath}))

FooGoods == {FooGood, FooOverDb}
BarGoods == {k \in BarKpkgs : FilesIn(k.payload) # {}}

ByNameDeps ==
    {<<>>,
     <<DepRow("foo", "bar", SqlNull)>>,
     <<DepRow("foo", "bar", SqlNull), DepRow("bar", "foo", SqlNull)>>,
     <<DepRow("foo", "baz", SqlNull)>>}

\* a root holding the flavour file and a synced core.db that lists foo and
\* bar with the digests of their archives
SyncedRoot(foo, bar, deps) ==
    Tree((FlavourPath :> Raw(<<SysFlavour>>)) @@
         (CoreDbPath :> Sqlite(<<RepoRow(foo), RepoRow(bar)>>, deps)))

ByNameInit ==
    /\ \E foo \in FooGoods, bar \in BarGoods, deps \in ByNameDeps :
          fs = SyncedRoot(foo, bar, deps)
    /\ dirOrder = "fwd"
    /\ pre = fs
    /\ last = NoCommand /\ prev = NoCommand
    /\ nops = 0
    /\ run = Idle
    /\ input = NoDoc /\ parsed = NotParsed
    /\ pkgRows = <<>> /\ depRows = <<>> /\ mainRows = <<>>
    /\ universe = NoUniverse /\ outcome = NotRun /\ rerun = NotRun

BeginInstall(name) ==
    /\ run.status # "running"
    /\ nops < MaxRuns
    /\ LET b == begin_install(fs, name)
       IN /\ fs' = b.fs
          /\ IF ~b.ok
             THEN run' = [Idle EXCEPT !.status = "err", !.name = name,
                                      !.err = b.err]
             ELSE \E ord \in TopoOrders(b.selected) :
                    run' = [status |-> "running", name |-> name,
                            queue |-> [i \in 1..Len(ord) |->
                                         ResolvedPackage(b.selected[ord[i]])],
                            selected |-> b.selected, events |-> <<>>,
                            err |-> NoError]
    /\ pre' = fs
    /\ nops' = nops + 1
    /\ UNCHANGED <<dirOrder, last, prev, rvars, pvars>>

ProcessPackage ==
    /\ run.status = "running"
    /\ \E resp \in Responses(Head(run.queue)) :
        LET r == process_package(fs, Head(run.queue), resp, dirOrder)
        IN /\ fs' = r.fs
           /\ run' = [run EXCEPT
                        !.status = IF ~r.ok THEN "err"
                                   ELSE IF Len(run.queue) = 1 THEN "ok"
                                   ELSE "running",
                        !.queue = IF r.ok THEN Tail(run.queue) ELSE run.queue,
                        !.events = run.events \o r.events,
                        !.err = r.err]
    /\ pre' = fs
    /\ UNCHANGED <<dirOrder, last, prev, nops, rvars, pvars>>

ByNameNext ==
    \/ \E name \in PkgNames : BeginInstall(name)
    \/ ProcessPackage

SpecByName == ByNameInit /\ [][ByNameNext]_vars

(***************************************************************************)
(* sync::sync_repos: fetch, check and cache the database of each           *)
(* repository in turn.                                                     *)
(***************************************************************************)
ReposDir == <<"var", "cache", "koushou", "repos">>

\* cache_dir.join(format!("{}.db.zst", repo_name))
ZstPath(repo) ==
    ReposDir \o <<CASE repo = "core" -> "core.db.zst"
                    [] repo = "main" -> "main.db.zst"
                    [] repo = "extra" -> "extra.db.zst">>

\* cache_dir.join(format!("{}.db", repo_name))
RepoDbPath(repo) ==
    ReposDir \o <<CASE repo = "core" -> "core.db"
                    [] repo = "main" -> "main.db"
                    [] repo = "extra" -> "extra.db">>

\* the repositories sync_repos fetches, in order
SyncedRepos == <<"core", "main">>

\* a zstd frame, named by the text it decompresses to
Zstd(text) == [NoData EXCEPT !.tag = "zst", !.text = text]

\* the text of a repository database that lists one package at a version
DbText(repo, version) == <<"toml", repo, "pkg", version>>

\* toml::from_str::<RepoDatabase>
IsRepoDatabase(text) == Len(text) > 0 /\ text[1] = "toml"

HttpOk == 200
HttpForbidden == 403
HttpNotFound == 404
HttpServerError == 500

\* StatusCode::is_success
is_success(status) == status >= 200 /\ status < 300

ErrorPage == Raw(<<"error page">>)

\* what the mirror may answer to the GET of <repo>.db.zst: no connection, an
\* error status, or a success status with a body that is a database, is not
\* compressed, does not parse, or is cut short
SyncResponses(repo) ==
    {[kind |-> "refused", status |-> 0, body |-> NoData]}
    \cup {[kind |-> "response", status |-> c, body |-> ErrorPage] :
            c \in {HttpForbidden, HttpNotFound, HttpServerError}}
    \cup {[kind |-> "response", status |-> HttpOk, body |-> b] :
            b \in {Zstd(DbText(repo, "new")), Zstd(<<"not toml">>),
                   Raw(<<"not zstd">>)}}
    \cup {[kind |-> "interrupted", status |-> HttpOk,
           body |-> Raw(<<"partial">>)]}

SyncResult(result, err, t) == [result |-> result, err |-> err, fs |-> t]

\* sync_repo writing <repo>.db without parsing the decompressed text
sync_repo_unvalidated(t, repo, resp) ==
    IF resp.kind = "refused" THEN SyncResult("failed", "Http", t)
    ELSE IF ~is_success(resp.status) THEN SyncResult("skipped", "none", t)
    ELSE IF resp.kind = "interrupted" THEN SyncResult("failed", "Http", t)
    ELSE LET w == WriteFile(t, ZstPath(repo), resp.body)
         IN IF ~w.ok THEN SyncResult("failed", "Io", t)
            ELSE IF resp.body.tag # "zst"
            THEN SyncResult("failed", "Io", w.fs)
            ELSE LET d == WriteFile(w.fs, RepoDbPath(repo),
                                    Raw(resp.body.text))
                 IN IF ~d.ok THEN SyncResult("failed", "Io", w.fs)
                    ELSE SyncResult("synced", "none", d.fs)

\* sync_repo
sync_repo(t, repo, resp) ==
    IF resp.kind = "refused" THEN SyncResult("failed", "Http", t)
    ELSE IF ~is_success(resp.status) THEN SyncResult("skipped", "none", t)
    ELSE IF resp.kind = "interrupted" THEN SyncResult("failed", "Http", t)
    ELSE LET w == WriteFile(t, ZstPath(repo), resp.body)
         IN IF ~w.ok THEN SyncResult("failed", "Io", t)
            ELSE IF resp.body.tag # "zst"
            THEN SyncResult("failed", "Io", w.fs)
            ELSE IF ~IsRepoDatabase(resp.body.text)
            THEN SyncResult("failed", "Other", w.fs)
            ELSE LET d == WriteFile(w.fs, RepoDbPath(repo),
                                    Raw(resp.body.text))
                 IN IF ~d.ok THEN SyncResult("failed", "Io", w.fs)
                    ELSE SyncResult("synced", "none", d.fs)

\* the part of sync_repos before the first repository
begin_sync(t) ==
    IF ~Exists(t, FlavourPath) THEN SyncResult("failed", "MissingFlavour", t)
    ELSE IF ~IsFile(t, FlavourPath) THEN SyncResult("failed", "Io", t)
    ELSE LET mk == CreateDirAll(t, ReposDir)
         IN IF ~mk.ok THEN SyncResult("failed", "Io", t)
            ELSE SyncResult("started", "none", mk.fs)

SyncEvent(repo, resp, result) ==
    [kind |-> "sync", name |-> repo, transport |-> resp.kind,
     code |-> resp.status, body |-> resp.body, result |-> result]

FlavouredRoot == Tree((FlavourPath :> Raw(<<SysFlavour>>)))

\* a root that an earlier sync has filled
StaleRoot ==
    Tree((FlavourPath :> Raw(<<SysFlavour>>)) @@
         (ZstPath("core") :> Zstd(DbText("core", "old"))) @@
         (RepoDbPath("core") :> Raw(DbText("core", "old"))))

SyncInit ==
    /\ fs \in {EmptyFs, FlavouredRoot, StaleRoot}
    /\ dirOrder = "fwd"
    /\ pre = fs
    /\ last = NoCommand /\ prev = NoCommand
    /\ nops = 0
    /\ run = Idle
    /\ input = NoDoc /\ parsed = NotParsed
    /\ pkgRows = <<>> /\ depRows = <<>> /\ mainRows = <<>>
    /\ universe = NoUniverse /\ outcome = NotRun /\ rerun = NotRun

BeginSync ==
    /\ run.status # "running"
    /\ nops < MaxSyncs
    /\ LET b == begin_sync(fs)
       IN /\ fs' = b.fs
          /\ run' = IF b.result = "failed"
                    THEN [Idle EXCEPT !.status = "err", !.name = "sync",
                                      !.err = OtherError(b.err)]
                    ELSE [Idle EXCEPT !.status = "running", !.name = "sync",
                                      !.queue = SyncedRepos]
    /\ pre' = fs
    /\ nops' = nops + 1
    /\ UNCHANGED <<dirOrder, last, prev, rvars, pvars>>

SyncRepo ==
    /\ run.status = "running"
    /\ \E resp \in SyncResponses(Head(run.queue)) :
        LET r == sync_repo(fs, Head(run.queue), resp)
        IN /\ fs' = r.fs
           /\ run' = [run EXCEPT
                        !.status = IF r.result = "failed" THEN "err"
                                   ELSE IF Len(run.queue) = 1 THEN "ok"
                                   ELSE "running",
                        !.queue = IF r.result = "failed" THEN run.queue
                                  ELSE Tail(run.queue),
                        !.events = run.events \o
                            <<SyncEvent(Head(run.queue), resp, r.result)>>,
                        !.err = IF r.result = "failed" THEN OtherError(r.err)
                                ELSE NoError]
    /\ pre' = fs
    /\ UNCHANGED <<dirOrder, last, prev, nops, rvars, pvars>>

SyncNext == BeginSync \/ SyncRepo

SpecSync == SyncInit /\ [][SyncNext]_vars

(***************************************************************************)
(* mirror::Mirror::from_kdl.  A document is the sequence of its nodes; a   *)
(* node has a first argument and properties, each present or absent.       *)
(***************************************************************************)
NoProp == [some |-> FALSE, text |-> ""]
Prop(text) == [some |-> TRUE, text |-> text]

\* str::parse::<i32>
ParseI32(text) ==
    CASE text = "1" -> [ok |-> TRUE, value |-> 1]
      [] text = "3" -> [ok |-> TRUE, value |-> 3]
      [] text = "5" -> [ok |-> TRUE, value |-> 5]
      [] OTHER -> [ok |-> FALSE, value |-> 0]

MirrorNode(name, url, priority, protocol, region, active) ==
    [node |-> "mirror", name |-> name, url |-> url, priority |-> priority,
     protocol |-> protocol, region |-> region, active |-> active]

\* the nodes a mirror list may hold, before they are given their names
MirrorNodeShapes ==
    {MirrorNode(Prop("?"), Prop("u"), p, NoProp, NoProp, a) :
        p \in {NoProp, Prop("1"), Prop("3"), Prop("5"), Prop("high")},
        a \in {NoProp, Prop("true"), Prop("false"), Prop("maybe")}}
    \cup {MirrorNode(Prop("?"), Prop("u"), NoProp, Prop("http"), Prop("asia"),
                     NoProp),
          MirrorNode(Prop("?"), NoProp, NoProp, NoProp, NoProp, NoProp),
          MirrorNode(NoProp, Prop("u"), NoProp, NoProp, NoProp, NoProp),
          [MirrorNode(Prop("?"), Prop("u"), Prop("5"), NoProp, NoProp, NoProp)
              EXCEPT !.node = "repo"]}

\* the i-th node is named after its place in the document
MirrorName(i) == ToString(i)

MirrorDocs ==
    {[syntax |-> "ok",
      nodes |-> [i \in 1..Len(ns) |->
                    [ns[i] EXCEPT !.name = IF @.some THEN Prop(MirrorName(i))
                                           ELSE NoProp]]] :
        ns \in SeqsUpTo(MirrorNodeShapes, MaxMirrors)}
    \cup {[syntax |-> "invalid", nodes |-> <<>>]}

MirrorsOk(mirrors) == [status |-> "ok", err |-> "none", mirrors |-> mirrors]
MirrorsErr(err) == [status |-> "err", err |-> err, mirrors |-> <<>>]

\* the loop over doc.nodes(): the first bad mirror node ends the parse
RECURSIVE CollectMirrors(_, _)
CollectMirrors(nodes, acc) ==
    IF nodes = <<>> THEN MirrorsOk(acc)
    ELSE LET n == Head(nodes)
         IN IF n.node # "mirror" THEN CollectMirrors(Tail(nodes), acc)
            ELSE IF ~n.name.some THEN MirrorsErr("MissingProperty")
            ELSE IF ~n.url.some THEN MirrorsErr("MissingProperty")
            ELSE IF n.priority.some /\ ~ParseI32(n.priority.text).ok
            THEN MirrorsErr("InvalidValue")
            ELSE IF n.active.some /\ n.active.text \notin {"true", "false"}
            THEN MirrorsErr("InvalidValue")
            ELSE CollectMirrors(Tail(nodes), Append(acc,
                    [name |-> n.name.text,
                     url |-> n.url.text,
                     priority |-> IF n.priority.some
                                  THEN ParseI32(n.priority.text).value ELSE 0,
                     protocol |-> IF n.protocol.some THEN n.protocol.text
                                  ELSE "https",
                     region |-> IF n.region.some THEN n.region.text
                                ELSE "global",
                     active |-> IF n.active.some THEN n.active.text = "true"
                                ELSE TRUE]))

\* where a stable descending sort puts m among the sorted mirrors
RECURSIVE InsertByPriority(_, _)
InsertByPriority(sorted, m) ==
    IF sorted = <<>> THEN <<m>>
    ELSE IF Head(sorted).priority >= m.priority
    THEN <<Head(sorted)>> \o InsertByPriority(Tail(sorted), m)
    ELSE <<m>> \o sorted

\* SortByPriority putting the lowest priority first
RECURSIVE SortByPriorityAscending(_)
SortByPriorityAscending(mirrors) ==
    IF mirrors = <<>> THEN <<>>
    ELSE Reverse(InsertByPriority(
             Reverse(SortByPriorityAscending(
                 SubSeq(mirrors, 1, Len(mirrors) - 1))),
             mirrors[Len(mirrors)]))

\* mirrors.sort_by(|a, b| b.priority.cmp(&a.priority))
RECURSIVE SortByPriority(_)
SortByPriority(mirrors) ==
    IF mirrors = <<>> THEN <<>>
    ELSE InsertByPriority(
             SortByPriority(SubSeq(mirrors, 1, Len(mirrors) - 1)),
             mirrors[Len(mirrors)])

\* mirrors.retain(|m| m.active)
RetainActive(mirrors) == SelectSeq(mirrors, LAMBDA m : m.active)

Mirror_from_kdl(d) ==
    IF d.syntax # "ok" THEN MirrorsErr("Parse")
    ELSE LET c == CollectMirrors(d.nodes, <<>>)
         IN IF c.status # "ok" THEN c
            ELSE MirrorsOk(RetainActive(SortByPriority(c.mirrors)))

MirrorInit ==
    /\ input \in MirrorDocs
    /\ parsed = NotParsed
    /\ fs = EmptyFs /\ pre = EmptyFs /\ dirOrder = "fwd"
    /\ last = NoCommand /\ prev = NoCommand /\ nops = 0
    /\ run = Idle
    /\ pkgRows = <<>> /\ depRows = <<>> /\ mainRows = <<>>
    /\ universe = NoUniverse /\ outcome = NotRun /\ rerun = NotRun

ParseMirrorList ==
    /\ parsed.status = "none"
    /\ parsed' = Mirror_from_kdl(input)
    /\ UNCHANGED <<input, rvars, fvars, run>>

SpecMirror == MirrorInit /\ [][ParseMirrorList]_vars

(***************************************************************************)
(* pkgutil::build: pack package.kdl and the tree under files/ of a source  *)
(* directory into a .kpkg.                                                 *)
(***************************************************************************)
SymlinkNode(target) == [kind |-> "symlink", data |-> Raw(target)]
FifoNode == [kind |-> "fifo", data |-> NoData]

\* what a source tree may hold under files/
SourceEntries ==
    {[path |-> UsrBinFoo, node |-> FileNode(Content("foo", UsrBinFoo))],
     [path |-> UsrBinBar, node |-> SymlinkNode(<<"foo">>)],
     [path |-> OptX, node |-> FileNode(Content("foo", OptX))],
     [path |-> OptX, node |-> FifoNode],
     [path |-> Opt, node |-> DirNode],
     [path |-> Etc, node |-> FileNode(Content("foo", Etc))],
     [path |-> VarLib, node |-> FileNode(Content("foo", VarLib))],
     [path |-> DbPath, node |-> FileNode(Serialize(NewDb))],
     [path |-> DbPath, node |-> FileNode(Content("foo", DbPath))]}

\* no two entries at one path, and only directories above other entries
ConsistentEntries(E) ==
    \A e, f \in E :
        e # f => /\ e.path # f.path
                 /\ IsPrefix(e.path, f.path) => e.node.kind = "dir"

\* the tree made of the entries and of the directories leading to them
TreeOf(E) ==
    LET paths == {e.path : e \in E}
        dirs == UNION {Parents(q) : q \in paths}
    IN [q \in paths \cup dirs |->
           IF q \in paths THEN (CHOOSE e \in E : e.path = q).node
           ELSE DirNode]

SourceTree(kdl, hasFiles, E) ==
    [kdl |-> kdl, manifest |-> Manifest("foo", <<"1">>),
     hasFiles |-> hasFiles, files |-> TreeOf(E)]

SourceTrees ==
    {SourceTree("ok", TRUE, E) :
        E \in {X \in SUBSET SourceEntries :
                 Cardinality(X) <= MaxSourceEntries /\ ConsistentEntries(X)}}
    \cup {SourceTree("missing", TRUE, {}), SourceTree("invalid", TRUE, {}),
          SourceTree("ok", FALSE, {})}

\* Pack leaving directories and symbolic links out of the archive
PackFilesOnly(tree) ==
    LET kept == {q \in DOMAIN tree : tree[q].kind = "file"}
    IN [q \in kept \cup UNION {Parents(q) : q \in kept} |->
           IF q \in kept THEN tree[q] ELSE DirNode]

\* the walk over files/: regular files, directories and symbolic links get
\* a tar record, every other entry is skipped
Pack(tree) ==
    Restrict(tree, {q \in DOMAIN tree :
                       tree[q].kind \in {"file", "dir", "symlink"}})

Built(kpkg) == [status |-> "ok", err |-> "none", kpkg |-> kpkg]
NotBuilt(err) == [status |-> "err", err |-> err, kpkg |-> NoKpkg]

build(S) ==
    IF S.kdl = "missing" THEN NotBuilt("MissingMetadata")
    ELSE IF S.kdl # "ok" THEN NotBuilt("PackageParse")
    ELSE IF ~S.hasFiles THEN NotBuilt("MissingFilesDir")
    ELSE Built([outer |-> "ok", kdl |-> "ok", manifest |-> S.manifest,
                tar |-> "ok", payload |-> Pack(S.files)])

BuildInit ==
    /\ input \in SourceTrees
    /\ parsed = NotParsed
    /\ fs = EmptyFs /\ pre = EmptyFs
    /\ dirOrder \in {"fwd", "rev"}
    /\ last = NoCommand /\ prev = NoCommand /\ nops = 0
    /\ run = Idle
    /\ pkgRows = <<>> /\ depRows = <<>> /\ mainRows = <<>>
    /\ universe = NoUniverse /\ outcome = NotRun /\ rerun = NotRun

Build ==
    /\ parsed.status = "none"
    /\ parsed' = build(input)
    /\ UNCHANGED <<input, rvars, fvars, run>>

\* `install <built .kpkg> -r R` on the still empty root
InstallBuilt ==
    /\ parsed.status = "ok"
    /\ nops = 0
    /\ LET r == install_local_package(parsed.kpkg, fs, dirOrder)
       IN /\ fs' = r.fs
          /\ last' = [op |-> "install", name |-> parsed.kpkg.manifest.name,
                      kpkg |-> parsed.kpkg, ok |-> r.ok, err |-> r.err]
    /\ pre' = fs
    /\ prev' = last
    /\ nops' = nops + 1
    /\ UNCHANGED <<dirOrder, rvars, run, pvars>>

BuildNext == Build \/ InstallBuilt

SpecBuild == BuildInit /\ [][BuildNext]_vars

(***************************************************************************)
(* package::Package::from_kdl.  A KDL value is a string or a value of      *)
(* another type; a node has a name, arguments, properties and, possibly,   *)
(* a block of child nodes.                                                 *)
(***************************************************************************)
Str(text) == [some |-> TRUE, type |-> "string", text |-> text]
Integer(text) == [some |-> TRUE, type |-> "integer", text |-> text]
Absent == [some |-> FALSE, type |-> "none", text |-> ""]

\* kdl_value_to_string
kdl_value_to_string(value) ==
    IF value.type = "string" THEN [ok |-> TRUE, text |-> value.text]
    ELSE [ok |-> FALSE, text |-> ""]

ChildNode(name, args) == [name |-> name, args |-> args]

ChildNodes ==
    {ChildNode("depends", <<Str("a")>>), ChildNode("depends", <<Str("b")>>),
     ChildNode("homepage", <<Str("h")>>), ChildNode("license", <<Str("l")>>),
     ChildNode("maintainer", <<Str("m")>>), ChildNode("depends", <<>>),
     ChildNode("depends", <<Integer("7")>>)}

NoChildren == [some |-> FALSE, nodes |-> <<>>]
Children(nodes) == [some |-> TRUE, nodes |-> nodes]

PackageNode(args, version, arch, flavor, children) ==
    [name |-> "package", args |-> args, version |-> version, arch |-> arch,
     flavor |-> flavor, children |-> children]

GoodPackageNode(children) ==
    PackageNode(<<Str("foo")>>, Str("1"), Str(SysArch), Str(SysFlavour),
                children)

OtherNode == [GoodPackageNode(NoChildren) EXCEPT !.name = "comment"]

PackageDocs ==
    {[syntax |-> "ok", nodes |-> <<GoodPackageNode(c)>>] :
        c \in {NoChildren} \cup
              {Children(k) : k \in SeqsUpTo(ChildNodes, MaxChildren)}}
    \cup {[syntax |-> "ok", nodes |-> ns] :
            ns \in {<<>>, <<OtherNode>>,
                    <<OtherNode,
                      GoodPackageNode(Children(<<ChildNode("license",
                                                           <<Str("l")>>)>>))>>,
                    <<PackageNode(<<>>, Str("1"), Str(SysArch),
                                  Str(SysFlavour), NoChildren)>>,
                    <<PackageNode(<<Integer("7")>>, Str("1"), Str(SysArch),
                                  Str(SysFlavour), NoChildren)>>,
                    <<PackageNode(<<Str("foo")>>, Absent, Str(SysArch),
                                  Str(SysFlavour), NoChildren)>>,
                    <<PackageNode(<<Str("foo")>>, Integer("1"), Str(SysArch),
                                  Str(SysFlavour), NoChildren)>>,
                    <<PackageNode(<<Str("foo")>>, Str("1"), Absent,
                                  Str(SysFlavour), NoChildren)>>,
                    <<PackageNode(<<Str("foo")>>, Str("1"), Str(SysArch),
                                  Absent, NoChildren)>>}}
    \cup {[syntax |-> "invalid", nodes |-> <<>>]}

NoPackage ==
    [name |-> "", version |-> "", arch |-> "", flavor |-> "",
     depends |-> <<>>, homepage |-> Absent, license |-> Absent]

PackageOk(pkg) == [status |-> "ok", err |-> "none", package |-> pkg]
PackageErr(err) == [status |-> "err", err |-> err, package |-> NoPackage]

\* KdlDocument::get: the first node of that name, 0 if there is none
FirstNamed(nodes, name) ==
    IF \E i \in 1..Len(nodes) : nodes[i].name = name
    THEN CHOOSE i \in 1..Len(nodes) :
            /\ nodes[i].name = name
            /\ \A j \in 1..(i - 1) : nodes[j].name # name
    ELSE 0

\* KdlDocument::iter_args: the arguments of the first node of that name
iter_args(nodes, name) ==
    IF FirstNamed(nodes, name) = 0 THEN <<>>
    ELSE nodes[FirstNamed(nodes, name)].args

\* the match on child_name
Recognise(pkg, child_name, value) ==
    CASE child_name = "depends" ->
            [pkg EXCEPT !.depends = Append(@, value)]
      [] child_name = "homepage" -> [pkg EXCEPT !.homepage = Str(value)]
      [] child_name = "license" -> [pkg EXCEPT !.license = Str(value)]
      [] OTHER -> pkg

\* the body of `for child_doc in pkg_node.children()`: children() is the
\* whole block, and the body looks at nodes[0] of it
ReadChildren(pkg, children) ==
    IF ~children.some THEN pkg
    ELSE LET nodes == children.nodes
         IN IF nodes = <<>> THEN pkg
            ELSE LET child_name == nodes[1].name
                     child_args == iter_args(nodes, child_name)
                 IN IF child_args = <<>> THEN pkg
                    ELSE LET v == kdl_value_to_string(child_args[1])
                         IN IF v.ok THEN Recognise(pkg, child_name, v.text)
                            ELSE pkg

Package_from_kdl(d) ==
    IF d.syntax # "ok" THEN PackageErr("Parse")
    ELSE IF FirstNamed(d.nodes, "package") = 0
    THEN PackageErr("MissingPackageNode")
    ELSE LET pkg_node == d.nodes[FirstNamed(d.nodes, "package")]
             args == iter_args(d.nodes, "package")
         IN IF args = <<>> THEN PackageErr("MissingName")
            ELSE IF ~kdl_value_to_string(args[1]).ok
            THEN PackageErr("InvalidPropertyValue")
            ELSE IF \E v \in {pkg_node.version, pkg_node.arch,
                               pkg_node.flavor} : ~v.some
            THEN PackageErr("MissingProperty")
            ELSE IF \E v \in {pkg_node.version, pkg_node.arch,
                               pkg_node.flavor} : ~kdl_value_to_string(v).ok
            THEN PackageErr("InvalidPropertyValue")
            ELSE PackageOk(ReadChildren(
                     [NoPackage EXCEPT
                         !.name = args[1].text,
                         !.version = pkg_node.version.text,
                         !.arch = pkg_node.arch.text,
                         !.flavor = pkg_node.flavor.text],
                     pkg_node.children))

ManifestInit ==
    /\ input \in PackageDocs
    /\ parsed = NotParsed
    /\ fs = EmptyFs /\ pre = EmptyFs /\ dirOrder = "fwd"
    /\ last = NoCommand /\ prev = NoCommand /\ nops = 0
    /\ run = Idle
    /\ pkgRows = <<>> /\ depRows = <<>> /\ mainRows = <<>>
    /\ universe = NoUniverse /\ outcome = NotRun /\ rerun = NotRun

ParseManifest ==
    /\ parsed.status = "none"
    /\ parsed' = Package_from_kdl(input)
    /\ UNCHANGED <<input, rvars, fvars, run>>

SpecManifest == ManifestInit /\ [][ParseManifest]_vars

(***************************************************************************)
(* Commands against one root: `install <path.kpkg>` and `remove <name>`.   *)
(***************************************************************************)
\* a root that already holds a file no package owns
ForeignRoot == Tree((UsrBinBar :> Raw(<<"foreign">>)))

\* a target root that is a regular file
FileRoot == (<<>> :> FileNode(Raw(<<"not a directory">>)))

RootInit ==
    /\ fs \in {EmptyFs, ForeignRoot, FileRoot}
    /\ dirOrder \in {"fwd", "rev"}
    /\ pre = fs
    /\ last = NoCommand
    /\ prev = NoCommand
    /\ nops = 0
    /\ pkgRows = <<>> /\ depRows = <<>> /\ mainRows = <<>>
    /\ universe = NoUniverse /\ outcome = NotRun /\ rerun = NotRun
    /\ run = Idle
    /\ input = NoDoc /\ parsed = NotParsed

InstallLocal(k) ==
    /\ nops < MaxOps
    /\ LET r == install_local_package(k, fs, dirOrder)
       IN /\ fs' = r.fs
          /\ last' = [op |-> "install", name |-> k.manifest.name, kpkg |-> k,
                      ok |-> r.ok, err |-> r.err]
    /\ pre' = fs
    /\ prev' = last
    /\ nops' = nops + 1
    /\ UNCHANGED <<dirOrder, rvars, run, pvars>>

Remove(name) ==
    /\ nops < MaxOps
    /\ LET r == remove_package(fs, name)
       IN /\ fs' = r.fs
          /\ last' = [op |-> "remove", name |-> name, kpkg |-> NoKpkg,
                      ok |-> r.ok, err |-> r.err]
    /\ pre' = fs
    /\ prev' = last
    /\ nops' = nops + 1
    /\ UNCHANGED <<dirOrder, rvars, run, pvars>>

RootNext ==
    \/ \E k \in Kpkgs : InstallLocal(k)
    \/ \E name \in PkgNames : Remove(name)

SpecRoot == RootInit /\ [][RootNext]_vars

(***************************************************************************)
(* The resolver's runs.                                                    *)
(***************************************************************************)
ResolveInit ==
    /\ InitGraph \/ InitVersions \/ InitRepos
    /\ universe = NoUniverse
    /\ outcome = NotRun
    /\ rerun = NotRun
    /\ fs = EmptyFs /\ pre = EmptyFs /\ dirOrder = "fwd"
    /\ last = NoCommand /\ prev = NoCommand /\ nops = 0
    /\ run = Idle
    /\ input = NoDoc /\ parsed = NotParsed

LoadFromCache ==
    /\ ~universe.loaded
    /\ universe' = [loaded |-> TRUE,
                    packages |-> load_from_cache(pkgRows, depRows)]
    /\ UNCHANGED <<pkgRows, depRows, mainRows, outcome, rerun, fvars, run, pvars>>

ResolveAmong(rootLists) ==
    /\ universe.loaded
    /\ outcome.status = "none"
    /\ \E roots \in rootLists :
        LET st == ResolveState(universe.packages, roots, SysFlavour, SysArch)
        IN IF st.err # NoError
           THEN outcome' = [status |-> "err", roots |-> roots,
                            selected |-> st.selected,
                            solution |-> NoSolution, err |-> st.err]
           ELSE \E ord \in Orders(DOMAIN st.selected) :
                    outcome' = [status |-> "ok", roots |-> roots,
                                selected |-> st.selected,
                                solution |-> Solution(st.selected, ord),
                                err |-> NoError]
    /\ UNCHANGED <<pkgRows, depRows, mainRows, universe, rerun, fvars, run, pvars>>

Resolve == ResolveAmong(RootLists)

ResolveNext == LoadFromCache \/ Resolve

SpecResolve == ResolveInit /\ [][ResolveNext]_vars

\* a second call of resolve on the same universe with the same root list,
\* flavour and arch
ResolveAgain ==
    /\ outcome.status # "none"
    /\ rerun.status = "none"
    /\ LET roots == outcome.roots
           st == ResolveState(universe.packages, roots, SysFlavour, SysArch)
       IN IF st.err # NoError
          THEN rerun' = [status |-> "err", roots |-> roots,
                         selected |-> st.selected,
                         solution |-> NoSolution, err |-> st.err]
          ELSE \E ord \in Orders(DOMAIN st.selected) :
                   rerun' = [status |-> "ok", roots |-> roots,
                             selected |-> st.selected,
                             solution |-> Solution(st.selected, ord),
                             err |-> NoError]
    /\ UNCHANGED <<pkgRows, depRows, mainRows, universe, outcome, fvars, run, pvars>>

\* resolve on the databases over a, b, c, d
DagInit ==
    /\ InitDag
    /\ universe = NoUniverse
    /\ outcome = NotRun
    /\ rerun = NotRun
    /\ fs = EmptyFs /\ pre = EmptyFs /\ dirOrder = "fwd"
    /\ last = NoCommand /\ prev = NoCommand /\ nops = 0
    /\ run = Idle
    /\ input = NoDoc /\ parsed = NotParsed

ResolveDag == ResolveAmong(DiamondRootLists)

DagNext == LoadFromCache \/ ResolveDag

SpecDag == DagInit /\ [][DagNext]_vars

RerunNext == LoadFromCache \/ Resolve \/ ResolveAgain

SpecRerun == ResolveInit /\ [][RerunNext]_vars

(***************************************************************************)
(* Properties of the resolver.                                             *)
(***************************************************************************)
SysKey(name) == <<name, SysArch, SysFlavour>>

Present(name) == SysKey(name) \in DOMAIN universe.packages

DepEdges == {<<depRows[i].package_name, depRows[i].dep_name>> :
                i \in 1..Len(depRows)}

Resolved == outcome.status # "none"

SolutionNames ==
    {outcome.solution.packages[k].name :
        k \in 1..Len(outcome.solution.packages)}

\* the dependency edges of the entries selected by the last resolve
SelectedDeps ==
    UNION {{<<n, outcome.selected[n].depends[i]>> :
               i \in 1..Len(outcome.selected[n].depends)} :
           n \in DOMAIN outcome.selected}

\* C1: for a universe in which a depends on b and b depends on a, both
\* present under the system arch and flavour, resolve with root list [a]
\* returns CircularDependency naming a or b instead of a solution.
C1_CycleDetected ==
    (/\ Resolved
     /\ outcome.roots = <<"a">>
     /\ Present("a") /\ Present("b")
     /\ DepEdges = {<<"a", "b">>, <<"b", "a">>})
    => /\ outcome.status = "err"
       /\ outcome.err \in {CircularDependency("a"), CircularDependency("b")}

\* C2: whenever resolve returns a solution, for every selected package p
\* and every dependency d of p's selected entry the solution contains a
\* package named d.name.
C2_ResolverClosure ==
    outcome.status = "ok" =>
        \A e \in SelectedDeps : e[2].name \in SolutionNames

C2_Witness ==
    /\ outcome.status = "ok"
    /\ \E e \in SelectedDeps : e[2].name # e[1]
    /\ Cardinality(SolutionNames) = 3

\* C3: whenever resolve returns a solution, for every dependency edge
\* (name, predicate) of every selected package the selected package called
\* name has a version satisfying the predicate.
C3_PredicatesEnforced ==
    outcome.status = "ok" =>
        \A e \in SelectedDeps :
            /\ e[2].name \in DOMAIN outcome.selected
            /\ matches(e[2].predicate, outcome.selected[e[2].name].id.version)

\* C10: if a root name, or a dependency name reached during traversal, has
\* no entry under (name, system arch, system flavour), resolve fails with
\* PackageNotFound carrying a name that was reached and has no entry, and
\* returns no solution.
ReachedNames ==
    {outcome.roots[i] : i \in 1..Len(outcome.roots)} \cup
    {e[2].name : e \in SelectedDeps}

C10_MissingPackage ==
    Resolved =>
        /\ (\E n \in ReachedNames : ~Present(n)) =>
              /\ outcome.status = "err"
              /\ outcome.err.kind = "PackageNotFound"
              /\ outcome.solution = NoSolution
        /\ outcome.err.kind = "PackageNotFound" =>
              /\ outcome.err.detail[1] \in ReachedNames
              /\ ~Present(outcome.err.detail[1])
              /\ outcome.err = PackageNotFound(outcome.err.detail[1])

C10_Witness ==
    /\ outcome.status = "err"
    /\ outcome.err.kind = "PackageNotFound"
    /\ outcome.err.detail[1] \notin
          {outcome.roots[i] : i \in 1..Len(outcome.roots)}
    /\ outcome.selected # EmptyMap

\* the rows of the cached database that carry a name
EntriesNamed(name) ==
    {pkgRows[i] : i \in {j \in 1..Len(pkgRows) : pkgRows[j].name = name}}

\* the database has entries for the name, all under another flavour than the
\* system's
OnlyOtherFlavour(name) ==
    /\ EntriesNamed(name) # {}
    /\ \A r \in EntriesNamed(name) : r.flavour # SysFlavour

\* C11: when every universe entry for the first root name is under a flavour
\* other than the system flavour, resolve fails with PackageNotFound for that
\* name; resolve never fails with FlavourMismatch and never selects an
\* entry of another flavour, so every package of a returned solution has the
\* system flavour and the system arch.
C11_FlavourIsolation ==
    Resolved =>
        /\ outcome.err.kind # "FlavourMismatch"
        /\ OnlyOtherFlavour(outcome.roots[1]) =>
              /\ outcome.status = "err"
              /\ outcome.err = PackageNotFound(outcome.roots[1])
              /\ outcome.selected = EmptyMap
        /\ \A n \in DOMAIN outcome.selected :
              /\ outcome.selected[n].id.flavour = SysFlavour
              /\ outcome.selected[n].id.arch = SysArch
        /\ \A k \in 1..Len(outcome.solution.packages) :
              /\ outcome.solution.packages[k].flavour = SysFlavour
              /\ outcome.solution.packages[k].arch = SysArch

C11_Witness ==
    /\ outcome.status = "err"
    /\ OnlyOtherFlavour(outcome.roots[1])
    /\ \E r \in EntriesNamed(outcome.roots[1]) : r.arch = SysArch

\* the entries the cached repositories list for a name under the system arch
\* and flavour, each tagged with the repository it comes from
Candidates(name) ==
    {[repo |-> "core", row |-> pkgRows[i]] :
        i \in {j \in 1..Len(pkgRows) : RowKey(pkgRows[j]) = SysKey(name)}}
    \cup {[repo |-> "main", row |-> mainRows[i]] :
        i \in {j \in 1..Len(mainRows) : RowKey(mainRows[j]) = SysKey(name)}}

\* core > main > extra
Precedence(repo) ==
    CASE repo = "core" -> 3 [] repo = "main" -> 2 [] repo = "extra" -> 1

\* C12: for every name in a returned solution the selected entry has the
\* byte-wise greatest version among all candidates the cached repositories
\* list for (name, arch, flavour), and among the candidates of that version
\* it comes from the repository of highest precedence.
C12_HighestVersion ==
    outcome.status = "ok" =>
        \A n \in DOMAIN outcome.selected :
            LET sel == outcome.selected[n]
            IN /\ \A c \in Candidates(n) :
                     StrLeq(c.row.version, sel.id.version)
               /\ \A c \in Candidates(n) :
                     c.row.version = sel.id.version =>
                         Precedence(c.repo) <= Precedence(sel.url[2])

\* the same for the candidates of repos/core.db alone
C12_HighestVersionInCore ==
    outcome.status = "ok" =>
        \A n \in DOMAIN outcome.selected :
            \A c \in Candidates(n) :
                c.repo = "core" =>
                    StrLeq(c.row.version, outcome.selected[n].id.version)

\* the dependency rows form no cycle: the names can be ranked so that every
\* package ranks before the packages it depends on
Acyclic ==
    \E rank \in [DiamondNameSet -> 1..4] :
        \A e \in DepEdges : rank[e[1]] < rank[e[2]]

\* a depends on b and c, both b and c depend on d, all four present
DiamondUniverse ==
    /\ DepEdges = {<<"a", "b">>, <<"a", "c">>, <<"b", "d">>, <<"c", "d">>}
    /\ \A n \in DiamondNameSet : Present(n)

\* C20: on an acyclic dependency graph resolve never returns
\* CircularDependency, for any root list (roots may repeat or be
\* dependencies of earlier roots); for the diamond a -> b, a -> c, b -> d,
\* c -> d resolve with root list [a] succeeds and selects a, b, c and d
\* exactly once each.
C20_DiamondResolves ==
    (Resolved /\ Acyclic) =>
        /\ outcome.err.kind # "CircularDependency"
        /\ (DiamondUniverse /\ outcome.roots = <<"a">>) =>
              /\ outcome.status = "ok"
              /\ SolutionNames = DiamondNameSet
              /\ Len(outcome.solution.packages) = 4
              /\ DOMAIN outcome.solution.download_urls = DiamondNameSet

C20_Witness ==
    /\ outcome.status = "ok"
    /\ DiamondUniverse
    /\ outcome.roots = <<"a">>
    /\ Len(outcome.solution.packages) = 4

\* two outcomes agree: the same set of selected PackageIds with the same URLs
\* and digests, or the same error
SameOutcome(o1, o2) ==
    /\ o1.status = o2.status
    /\ o1.err = o2.err
    /\ Range(o1.solution.packages) = Range(o2.solution.packages)
    /\ Len(o1.solution.packages) = Len(o2.solution.packages)
    /\ o1.solution.download_urls = o2.solution.download_urls
    /\ o1.solution.sha256_sums = o2.solution.sha256_sums

InstalledThenRemoved ==
    /\ prev.op = "install" /\ prev.ok
    /\ last.op = "remove" /\ last.ok
    /\ last.name = prev.name

\* C7 as stated: after install_local_package(K, R) succeeds and then
\* remove_package(R, name(K)) succeeds, no regular file of K's payload
\* exists under R and the installed DB has no entry for name(K).
C7_InstallRemoveInverse ==
    InstalledThenRemoved =>
        /\ \A p \in FilesIn(prev.kpkg.payload) : ~IsFile(fs, p)
        /\ ~contains(DbOf(fs), last.name)

\* C7 as amended: after install_local_package(K, R) succeeds and then
\* remove_package(R, name(K)) succeeds, no regular file of K's payload
\* exists under R except at the path of the installed DB itself
\* (var/lib/koushou/db.json), which the remove writes back as the saved
\* database; the installed DB has no entry for name(K).
C7_InstallRemoveInverseAmended ==
    InstalledThenRemoved =>
        /\ \A p \in FilesIn(prev.kpkg.payload) \ {DbPath} : ~Exists(fs, p)
        /\ IsFile(fs, DbPath)
        /\ fs[DbPath].data = Serialize(remove(DbOf(pre), last.name))
        /\ ~contains(DbOf(fs), last.name)

C7_Witness ==
    /\ InstalledThenRemoved
    /\ Cardinality(FilesIn(prev.kpkg.payload) \ {DbPath}) = 2
    /\ \A p \in FilesIn(prev.kpkg.payload) : IsFile(pre, p)

\* the files recorded for a name in the database of tree t
RecordedFiles(t, name) ==
    IF contains(DbOf(t), name) THEN Range(DbOf(t)[name].files) ELSE {}

\* C8: remove_package unlinks only regular-file paths recorded in the
\* package's files list that still exist; every directory present under the
\* root before the remove is still present afterwards, nothing but the
\* database file is otherwise touched, and a recorded file that is already
\* absent does not make the remove fail.
C8_RemoveKeepsDirectories ==
    last.op = "remove" =>
        /\ DirsIn(pre) \subseteq DirsIn(fs)
        /\ (DOMAIN pre \ DOMAIN fs) \subseteq
              {p \in RecordedFiles(pre, last.name) : IsFile(pre, p)}
        /\ DOMAIN fs \subseteq DOMAIN pre \cup {DbPath}
        /\ \A q \in (DOMAIN fs \cap DOMAIN pre) \ {DbPath} : fs[q] = pre[q]
        /\ (/\ load_or_new(pre, DbPath).ok
            /\ Exists(pre, DbPath)
            /\ contains(DbOf(pre), last.name)
            /\ \A p \in RecordedFiles(pre, last.name) : ~IsDir(pre, p))
           => last.ok

C8_Witness ==
    /\ last.op = "remove" /\ last.ok
    /\ \E p \in RecordedFiles(pre, last.name) : ~Exists(pre, p)
    /\ \E p \in RecordedFiles(pre, last.name) : IsFile(pre, p) /\ ~Exists(fs, p)
    /\ \E d \in DirsIn(pre) : \A q \in DOMAIN fs : q # d => ~IsPrefix(d, q)

\* the last two commands installed the same package twice
InstalledTwice ==
    /\ prev.op = "install" /\ prev.ok
    /\ last.op = "install" /\ last.ok
    /\ last.kpkg = prev.kpkg

\* C9: installing the same package K into root R a second time, directly
\* after a successful install of K, leaves the files under R and their
\* contents unchanged and the installed-DB entry for name(K) identical, and
\* the DB document has exactly one entry for that name.
C9_InstallIdempotent ==
    InstalledTwice =>
        /\ fs = pre
        /\ DbOf(fs)[last.name] = DbOf(pre)[last.name]
        /\ Cardinality({e \in fs[DbPath].data.doc : e.key = last.name}) = 1

C9_Witness ==
    /\ InstalledTwice
    /\ FilesIn(last.kpkg.payload) # {}
    /\ \E p \in FilesIn(fs) : p \notin FilesIn(last.kpkg.payload) \cup {DbPath}

\* the database file of tree t is absent, or it loads and has no entry for
\* the name
NotInstalledIn(t, name) ==
    \/ ~Exists(t, DbPath)
    \/ /\ IsFile(t, DbPath)
       /\ CanParse(t[DbPath].data)
       /\ ~contains(Parse(t[DbPath].data), name)

\* C14: if the installed DB file is absent or has no entry for the name,
\* remove_package returns NotInstalled for that name, nothing under the root
\* is deleted and the DB file is unchanged; NotInstalled is returned in no
\* other case.
C14_RemoveNotInstalled ==
    last.op = "remove" =>
        /\ NotInstalledIn(pre, last.name) =>
              /\ ~last.ok
              /\ last.err = "NotInstalled"
              /\ fs = pre
        /\ last.err = "NotInstalled" => NotInstalledIn(pre, last.name)

C14_Witness ==
    /\ last.op = "remove"
    /\ last.err = "NotInstalled"
    /\ IsFile(pre, DbPath)
    /\ DbOf(pre) # NewDb
    /\ \E n \in DOMAIN DbOf(pre) : \E p \in RecordedFiles(pre, n) : IsFile(fs, p)

\* the same with no database file under the root at all
C14_WitnessAbsent ==
    /\ last.op = "remove"
    /\ last.err = "NotInstalled"
    /\ ~Exists(pre, DbPath)
    /\ FilesIn(pre) # {}

\* the errors install_local_package returns before it touches the root
RejectedEarly == {"InvalidRoot", "PackageParse", "MissingFilesTar"}

\* C24: when install_local_package fails before the apply step (the root is
\* not a directory: InvalidRoot; package.kdl is missing or does not parse:
\* PackageParse; files.tar.zst is missing: MissingFilesTar), no file under
\* the target root is created, deleted or replaced and the installed DB is
\* unchanged.
C24_RejectedChangesNothing ==
    last.op = "install" =>
        /\ ~RootIsDir(pre) => last.err = "InvalidRoot"
        /\ (RootIsDir(pre) /\ last.kpkg.outer = "ok") =>
              /\ last.kpkg.kdl # "ok" => last.err = "PackageParse"
              /\ (last.kpkg.kdl = "ok" /\ last.kpkg.tar = "missing") =>
                    last.err = "MissingFilesTar"
        /\ last.err \in RejectedEarly =>
              /\ ~last.ok
              /\ fs = pre
              /\ DbOf(fs) = DbOf(pre)

\* a package without files.tar.zst is rejected by a root where another
\* package is installed and whose files the payload would have replaced
C24_Witness ==
    /\ last.op = "install"
    /\ last.err = "MissingFilesTar"
    /\ DbOf(pre) # NewDb
    /\ \E p \in FilesIn(pre) : \E q \in DOMAIN last.kpkg.payload :
          p # q /\ p[1] = q[1]

\* the same for a package.kdl that is missing and one that does not parse
C24_WitnessPackageParse ==
    /\ last.op = "install" /\ last.err = "PackageParse"
    /\ prev.op = "install" /\ prev.err = "PackageParse"
    /\ last.kpkg.kdl = "missing" /\ prev.kpkg.kdl = "invalid"
    /\ DbOf(pre) # NewDb

\* the same for a root that is not a directory
C24_WitnessInvalidRoot ==
    /\ last.op = "install"
    /\ last.err = "InvalidRoot"
    /\ last.kpkg.outer = "ok" /\ last.kpkg.kdl = "ok"
    /\ last.kpkg.tar = "ok"

\* the packages other than the one just installed that the database held
\* before the install
OtherInstalled ==
    IF last.op = "install" /\ last.ok
    THEN DOMAIN DbOf(pre) \ {last.name} ELSE {}

\* C21: after install_local_package(B, R) succeeds, every other package A
\* recorded in the installed DB before the call still has its DB entry,
\* unchanged, and every file of A's files list that existed before the call
\* and that B's payload does not itself contain still exists under R.
C21_OthersIntact ==
    \A a \in OtherInstalled :
        /\ contains(DbOf(fs), a)
        /\ DbOf(fs)[a] = DbOf(pre)[a]
        /\ \A p \in RecordedFiles(pre, a) :
              (IsFile(pre, p) /\ p \notin DOMAIN last.kpkg.payload)
                  => IsFile(fs, p)

(***************************************************************************)
(* Properties of sync.                                                     *)
(***************************************************************************)
\* the answer was a 4xx status
ClientError(e) ==
    e.transport = "response" /\ e.code >= 400 /\ e.code < 500

\* the answer was another HTTP failure: a 5xx status or no answer at all
OtherHttpFailure(e) ==
    \/ e.transport = "refused"
    \/ e.transport = "response" /\ e.code >= 500

\* C15: sync skips a repository exactly on a 4xx answer: the run then goes
\* on, a repository that was fetched and checked has its .db file cached,
\* and any other HTTP failure (a 5xx status, no connection) makes the sync
\* fail at that repository instead of skipping it.
C15_SkipExactlyOn4xx ==
    run.name = "sync" =>
        \A i \in 1..Len(run.events) :
            LET e == run.events[i]
            IN /\ ClientError(e) => e.result = "skipped"
               /\ e.result = "skipped" =>
                     /\ ClientError(e)
                     /\ i = Len(run.events) => run.status \in {"running", "ok"}
               /\ e.result = "synced" => IsFile(fs, RepoDbPath(e.name))
               /\ OtherHttpFailure(e) =>
                     /\ e.result = "failed"
                     /\ i = Len(run.events)
                     /\ run.status = "err"

\* the part of C15 about 404 alone: a 404 for one repository is skipped and
\* the sync succeeds with the other repository's .db file cached
C15_SkipOn404 ==
    run.name = "sync" =>
        \A i \in 1..Len(run.events) :
            LET e == run.events[i]
            IN /\ (e.transport = "response" /\ e.code = HttpNotFound) =>
                     /\ e.result = "skipped"
                     /\ i = Len(run.events) => run.status \in {"running", "ok"}
               /\ e.result = "synced" =>
                     /\ IsFile(fs, RepoDbPath(e.name))
                     /\ fs[RepoDbPath(e.name)].data = Raw(e.body.text)

\* the last repository the running sync has handled
LastSynced == run.events[Len(run.events)]

\* the body of the answer was received in full with a success status
Received(e) ==
    e.transport = "response" /\ is_success(e.code)

\* the received bytes decompress and the text parses as a repository DB
ValidDatabase(e) ==
    e.body.tag = "zst" /\ IsRepoDatabase(e.body.text)

\* the file at path p is the same before and after the last step
SameFile(p) ==
    /\ Exists(fs, p) <=> Exists(pre, p)
    /\ Exists(fs, p) => fs[p] = pre[p]

\* C23: sync_repo writes <repo>.db only when the downloaded bytes
\* zstd-decompress and parse as a repository database, and then writes the
\* decompressed text; when decompression or validation fails the sync
\* fails, a <repo>.db left by an earlier sync is unchanged, and the raw
\* bytes have already been written to <repo>.db.zst.
C23_PublishAfterValidation ==
    (run.name = "sync" /\ run.events # <<>>) =>
        LET e == LastSynced
        IN /\ ~SameFile(RepoDbPath(e.name)) =>
                 /\ Received(e) /\ ValidDatabase(e)
                 /\ fs[RepoDbPath(e.name)] = FileNode(Raw(e.body.text))
           /\ (Received(e) /\ ~ValidDatabase(e)) =>
                 /\ e.result = "failed"
                 /\ run.status = "err"
                 /\ SameFile(RepoDbPath(e.name))
                 /\ fs[ZstPath(e.name)] = FileNode(e.body)

\* a failed validation after an earlier sync: the two cache files disagree
C23_Witness ==
    /\ run.name = "sync" /\ run.events # <<>>
    /\ Received(LastSynced) /\ ~ValidDatabase(LastSynced)
    /\ LastSynced.body.tag = "zst"
    /\ IsFile(pre, RepoDbPath(LastSynced.name))
    /\ IsRepoDatabase(fs[RepoDbPath(LastSynced.name)].data.text)
    /\ pre[ZstPath(LastSynced.name)].data =
          Zstd(pre[RepoDbPath(LastSynced.name)].data.text)
    /\ fs[ZstPath(LastSynced.name)].data #
          Zstd(fs[RepoDbPath(LastSynced.name)].data.text)

\* the same when the bytes are not a zstd frame at all
C23_WitnessNotZstd ==
    /\ run.name = "sync" /\ run.events # <<>>
    /\ Received(LastSynced)
    /\ LastSynced.body.tag # "zst"
    /\ IsFile(pre, RepoDbPath(LastSynced.name))
    /\ fs[ZstPath(LastSynced.name)].data = LastSynced.body

(***************************************************************************)
(* Properties of the mirror list.                                          *)
(***************************************************************************)
\* the places of the mirror nodes whose active flag is true or defaulted
ActiveNodes ==
    {i \in 1..Len(input.nodes) :
        /\ input.nodes[i].node = "mirror"
        /\ input.nodes[i].active \in {NoProp, Prop("true")}}

\* the mirror list of the example: priorities 3, 1, 5 and actives
\* true, true, false
ExampleMirrorList ==
    /\ Len(input.nodes) = 3
    /\ \A i \in 1..3 : input.nodes[i].node = "mirror"
    /\ [i \in 1..3 |-> input.nodes[i].priority] =
           <<Prop("3"), Prop("1"), Prop("5")>>
    /\ [i \in 1..3 |-> input.nodes[i].active] =
           <<Prop("true"), Prop("true"), Prop("false")>>

\* C16: Mirror::from_kdl returns exactly the mirrors whose active flag is
\* true (default true), ordered by priority descending (default priority
\* 0); for priorities [3, 1, 5] with actives [true, true, false] the first
\* returned mirror is the priority-3 one and the priority-5 mirror is
\* absent.
C16_MirrorSort ==
    parsed.status = "ok" =>
        LET out == parsed.mirrors
        IN /\ Len(out) = Cardinality(ActiveNodes)
           /\ \A i \in ActiveNodes : \E k \in 1..Len(out) :
                 /\ out[k].name = input.nodes[i].name.text
                 /\ out[k].priority =
                       IF input.nodes[i].priority.some
                       THEN ParseI32(input.nodes[i].priority.text).value
                       ELSE 0
                 /\ out[k].active
           /\ \A k, l \in 1..Len(out) :
                 k < l => out[k].priority >= out[l].priority
           /\ ExampleMirrorList =>
                 /\ out[1].priority = 3
                 /\ \A k \in 1..Len(out) : out[k].priority # 5

C16_Witness ==
    /\ parsed.status = "ok"
    /\ ExampleMirrorList
    /\ Len(parsed.mirrors) = 2

(***************************************************************************)
(* Properties of the manifest parser.                                      *)
(***************************************************************************)
\* the child nodes of the package node of the document
ManifestChildren ==
    LET i == FirstNamed(input.nodes, "package")
    IN IF i = 0 THEN <<>> ELSE input.nodes[i].children.nodes

\* a child node of that name that carries a string argument
Carries(node, name) ==
    /\ node.name = name
    /\ node.args # <<>>
    /\ node.args[1].type = "string"

\* the string arguments of the children of that name, in document order
ArgumentsOf(name) ==
    LET kids == SelectSeq(ManifestChildren, LAMBDA n : Carries(n, name))
    IN [i \in 1..Len(kids) |-> kids[i].args[1].text]

\* C18: Package::from_kdl returns in depends the argument of every
\* `depends` child node of the package node, in document order, sets
\* homepage and license from their child nodes wherever they appear among
\* the children, and ignores unrecognised child nodes without affecting the
\* recognised ones.
C18_ManifestChildren ==
    parsed.status = "ok" =>
        /\ parsed.package.depends = ArgumentsOf("depends")
        /\ parsed.package.homepage.some <=> ArgumentsOf("homepage") # <<>>
        /\ parsed.package.homepage.some =>
              parsed.package.homepage.text \in Range(ArgumentsOf("homepage"))
        /\ parsed.package.license.some <=> ArgumentsOf("license") # <<>>
        /\ parsed.package.license.some =>
              parsed.package.license.text \in Range(ArgumentsOf("license"))

\* what the parser does collect: the first child node alone
C18_FirstChildOnly ==
    parsed.status = "ok" =>
        /\ Len(parsed.package.depends) <= 1
        /\ \A name \in {"depends", "homepage", "license"} :
              (ManifestChildren # <<>> /\ Carries(ManifestChildren[1], name))
              <=> CASE name = "depends" -> parsed.package.depends # <<>>
                    [] name = "homepage" -> parsed.package.homepage.some
                    [] name = "license" -> parsed.package.license.some

(***************************************************************************)
(* Properties of build followed by install.                                *)
(***************************************************************************)
\* the source tree was built and the result installed into the empty root
BuiltAndInstalled == parsed.status = "ok" /\ last.op = "install"

\* the files list recorded for the package, as a set
InstalledFiles ==
    IF contains(DbOf(fs), last.name) THEN Range(DbOf(fs)[last.name].files)
    ELSE {}

BlocksDb(S) ==
    \/ \E q \in Parents(DbPath) : IsFile(S.files, q)
    \/ IsFile(S.files, DbPath) /\ ~CanParse(S.files[DbPath].data)

Events == run.events

\* the i-th event hands a file to the install engine that this run did not
\* fetch: the cached .kpkg already existed
CachedHandOver(i) ==
    /\ Events[i].kind = "install"
    /\ \/ i = 1
       \/ Events[i - 1].kind # "fetch"
       \/ Events[i - 1].name # Events[i].name

\* C4: in install-by-name a cached .kpkg that already exists is handed to
\* the install engine only if its SHA-256 equals the digest advertised by
\* the repository DB; a cached file with the wrong digest is never
\* installed as-is.
C4_CachedVerified ==
    \A i \in 1..Len(Events) :
        CachedHandOver(i) => Events[i].actual = Events[i].expected

\* C5: if the bytes fetched for a package hash to a digest different from
\* the advertised one, the install engine is not invoked for that package
\* (nothing under the root but the cached file changes, the installed DB
\* does not change) and install-by-name returns
\* Sha256Mismatch{filename, expected, actual}.
FetchMismatch(i) ==
    /\ Events[i].kind = "fetch"
    /\ Events[i].actual # Events[i].expected

C5_DigestGating ==
    \A i \in 1..Len(Events) :
        FetchMismatch(i) =>
            /\ i = Len(Events)
            /\ run.status = "err"
            /\ run.err.kind = "Sha256Mismatch"
            /\ run.err = Sha256Mismatch(Events[i].filename,
                                        Events[i].expected, Events[i].actual)
            /\ LET path == CachePath(Events[i].filename)
               IN /\ Restrict(fs, DOMAIN fs \ {path}) =
                        Restrict(pre, DOMAIN pre \ {path})
                  /\ DbOf(fs) = DbOf(pre)

C5_Witness ==
    /\ Len(Events) = 3
    /\ Events[2].kind = "install" /\ Events[2].ok
    /\ FetchMismatch(3)
    /\ Events[3].actual = Sha256(KpkgBytes(Evil(Events[3].name)))

\* C22: over any sequence of install-by-name commands against the same
\* root, re-runs after a Sha256Mismatch included, the install engine is
\* never invoked on a cached .kpkg whose SHA-256 differs from the digest
\* the repository DB advertises for it.
C22_NeverInstallsMismatch ==
    \A i \in 1..Len(Events) :
        Events[i].kind = "install" =>
            Events[i].actual = Events[i].expected

\* the packages the run installed before the package it is at
InstalledEarlier ==
    {i \in 1..Len(Events) :
        /\ Events[i].kind = "install" /\ Events[i].ok
        /\ run.queue # <<>> => Events[i].name # Head(run.queue).name}

\* C19: when the processing of a package fails in install-by-name, no
\* later package of the install order is downloaded or installed, and
\* every package installed earlier in the same run still has its files
\* under the root and its entry in the installed DB.
C19_FailFastNoRollback ==
    (run.name \in PkgNames /\ run.status = "err") =>
        /\ \A k \in 2..Len(run.queue) : \A i \in 1..Len(Events) :
              Events[i].name # run.queue[k].name
        /\ \A i \in InstalledEarlier :
              /\ contains(DbOf(fs), Events[i].name)
              /\ \A q \in Events[i].files : IsFile(fs, q)

\* C6: in install-by-name, for every pair of resolved packages p and d
\* where p depends on d, the install engine is invoked for d before it is
\* invoked for p.
C6_DependencyFirst ==
    \A i \in 1..Len(Events) :
        Events[i].kind = "install" =>
            \A d \in SelectedDepsOf(run.selected, Events[i].name) :
                \E j \in 1..(i - 1) :
                    Events[j].kind = "install" /\ Events[j].name = d

====
